---- MODULE Spec2Model ----
(***************************************************************************)
(* Model of the RBAC order-management backend (Express + Mongoose).        *)
(*                                                                         *)
(* Every HTTP request is a small process held in a request slot.  Each     *)
(* `await` on the document store is one atomic step: the step performs the *)
(* store operation and then runs the synchronous code that follows it up   *)
(* to the next `await` (or the response).  Steps of different requests     *)
(* interleave freely: the store offers no transactions and no locking.     *)
(***************************************************************************)
EXTENDS Integers, Sequences, FiniteSets, TLC

\* ------------------------------------------------------------------ bounds
MaxCalls == 2        \* requests started in one behaviour
MaxLines == 2        \* lines in the items array of one PlaceOrder body
MaxQty == 2          \* largest line quantity / stock level an input names
MaxTicks == 2        \* steps the clock takes in one behaviour

Req == {1, 2}        \* request slots: requests that can be in flight at once

\* ------------------------------------------------------------- JSON values
\* A request body field as JavaScript sees it after express.json().
Undefined == [t |-> "undefined", v |-> 0]
Null == [t |-> "null", v |-> 0]
NaN == [t |-> "nan", v |-> 0]
Num(n) == [t |-> "num", v |-> n]
Str(s) == [t |-> "str", v |-> s]
Bool(b) == [t |-> "bool", v |-> b]

\* Number(x) for the values above: Number(undefined) is NaN, Number(null) and
\* Number("") are 0, a non-numeric string is NaN.
ToNumber(x) ==
  CASE x.t = "num" -> x
    [] x.t = "null" -> Num(0)
    [] x.t = "str" /\ x.v = "" -> Num(0)
    [] OTHER -> NaN

\* --------------------------------------------------------------- the store
UserIds == {"A1", "U1"}
ShopIds == {"S1", "S2"}
ProductIds == {"P1", "P2"}
NoId == ""                       \* a missing (falsy) id in a body
GhostShop == "S9"                \* a well-formed id that names no shop
GhostProduct == "P9"             \* a well-formed id that names no product

VARIABLES
  users,       \* User collection: id -> [exists, role, isActive]
  shops,       \* Shop collection: id -> [exists, isActive]
  items,       \* Item collection: id -> [exists, price, quantity]
  orders,      \* Order collection, in creation order; the _id is the index
  req,         \* request slots; writes is history: the store writes the request made
  calls,       \* requests started so far
  stockOut,    \* history: per product, total quantity of the persisted PlaceOrder decrements
  stockEdited, \* history: per product, whether an admin update wrote its quantity
  creds,       \* User collection, the credential fields: id -> [email, password,
               \*   refreshToken, resetCode, resetCodeExpiry]
  clock,       \* [now: the server's time in seconds, ticks: clock steps taken]
  hist         \* history: [logins: per user, the refresh tokens its logins stored,
               \*   in order; via: per user, the operation that created it]

vars == <<users, shops, items, orders, req, calls, stockOut, stockEdited,
          creds, clock, hist>>
store == <<users, shops, items, orders>>
auth == <<creds, clock, hist>>

\* ------------------------------------------------------------- credentials
\* A password as the policy and the hash see it: its text and the features
\* of the text that passwordRegex tests.
Password(text, len, letter, digit, symbol) ==
  [text |-> text, len |-> len, letter |-> letter, digit |-> digit, symbol |-> symbol]
OldPw == Password("old#pass1", 9, TRUE, TRUE, TRUE)
NewPw == Password("new#pass2", 9, TRUE, TRUE, TRUE)
WeakPw == Password("short", 5, TRUE, FALSE, FALSE)
NoPw == Password("", 0, FALSE, FALSE, FALSE)

\* /^(?=.*[A-Za-z])(?=.*\d)(?=.*[^A-Za-z0-9]).{8,}$/.test(password)
passwordRegex(p) == p.len >= 8 /\ p.letter /\ p.digit /\ p.symbol

\* bcrypt.hash(password, 10) and bcrypt.compare(password, hash): the hash is
\* kept as the digest of its plaintext, which is all compare depends on.
bcryptHash(p) == [bcrypt |-> p.text]
bcryptCompare(p, hash) == hash = bcryptHash(p)

\* crypto.createHash("sha256").update(code).digest("hex")
sha256(code) == [sha256 |-> code]
NoHash == [sha256 |-> ""]
NoExpiry == -1

\* jwt.sign({ id }, REFRESH_TOKEN_SECRET, { expiresIn: "7d" }) at time iat:
\* the token is a function of the payload and the second it was signed in.
RefreshTtl == 604800
Jwt(id, iat) == [id |-> id, iat |-> iat, signed |-> TRUE]
NoToken == [id |-> NoId, iat |-> 0, signed |-> FALSE]
ForgedToken == [id |-> "U1", iat |-> 0, signed |-> FALSE]
\* jwt.verify(token, REFRESH_TOKEN_SECRET): the signature and the expiry.
jwtVerify(token, now) == token.signed /\ now < token.iat + RefreshTtl

\* new Date(Date.now() + 10 * 60 * 1000), in seconds
ResetCodeTtl == 600

NoEmail == ""
Email(u) == IF u = "A1" THEN "a@x" ELSE "u@x"
NoCreds == [email |-> NoEmail, idCardNumber |-> "", password |-> bcryptHash(NoPw), refreshToken |-> NoToken,
            resetCode |-> NoHash, resetCodeExpiry |-> NoExpiry]
\* Both seeded users logged in at time 0 with the old password.
InitCreds == [u \in UserIds |->
                [NoCreds EXCEPT !.email = Email(u), !.password = bcryptHash(OldPw),
                                !.idCardNumber = (IF u = "A1" THEN "" ELSE "id1"),
                                !.refreshToken = Jwt(u, 0)]]
InitHist == [logins |-> [u \in UserIds |-> <<Jwt(u, 0)>>],
             via |-> [u \in UserIds |-> IF u = "A1" THEN "signup" ELSE "createSalesman"]]
InitAuth ==
  /\ creds = InitCreds
  /\ clock = [now |-> 0, ticks |-> 0]
  /\ hist = InitHist

InitQty == [p \in ProductIds |-> IF p = "P1" THEN MaxQty ELSE 1]
InitPrice == [p \in ProductIds |-> IF p = "P1" THEN 2 ELSE 1]

NoUser == [id |-> NoId, role |-> "none"]
NoBody == [k |-> "none"]
NoLoc == [k |-> "none"]
Idle == [pc |-> "idle", route |-> "none", token |-> "none", user |-> NoUser,
         body |-> NoBody, loc |-> NoLoc, result |-> "none", writes |-> 0]

\* A seeded database: an admin and a salesman who have both logged in, an
\* active and a disabled shop, two products in stock, no orders.
Init ==
  /\ users = [u \in UserIds |->
                [exists |-> TRUE, role |-> IF u = "A1" THEN "admin" ELSE "salesman",
                 isActive |-> TRUE]]
  /\ shops = [s \in ShopIds |-> [exists |-> TRUE, isActive |-> (s = "S1")]]
  /\ items = [p \in ProductIds |->
                [exists |-> TRUE, price |-> InitPrice[p], quantity |-> InitQty[p]]]
  /\ orders = <<>>
  /\ req = [r \in Req |-> Idle]
  /\ calls = 0
  /\ stockOut = [p \in ProductIds |-> 0]
  /\ stockEdited = [p \in ProductIds |-> FALSE]
  /\ InitAuth

\* ------------------------------------------------------------------ routes
\* checkRole([...]) of each route declaration.
AllowedRoles(route) ==
  CASE route = "order" -> {"admin", "salesman"}
    [] route = "payment" -> {"admin"}
    [] route = "orders" -> {"admin"}
    [] route = "productUpdate" -> {"admin"}
    [] route = "salesmanStatus" -> {"admin"}
    [] route = "salesmanDelete" -> {"admin"}
    [] route = "shopStatus" -> {"admin"}
    [] route = "createSalesman" -> {"admin"}
    [] route = "changePassword" -> {"admin", "salesman"}  \* no checkRole: any user
    [] route = "profile" -> {"admin", "salesman"}         \* no checkRole: any user
    [] route = "summary" -> {"admin"}
    [] route = "productDelete" -> {"admin"}
    [] route = "salesmanUpdate" -> {"admin"}
    [] route = "shopDelete" -> {"admin"}
    [] OTHER -> {}

Finish(q, result) == [q EXCEPT !.pc = "done", !.result = result]

\* --------------------------------------------------- the authorization gate
\* verifyAccessToken up to its first await: the header check and jwt.verify.
\* token "none" is a missing or malformed header, "bad" a token whose
\* signature does not verify or that has expired; any other token is the id
\* of the user it was issued to at login.
Begin(c) ==
  LET q == [Idle EXCEPT !.route = c.route, !.token = c.token, !.body = c.body] IN
  IF c.token = "none" THEN Finish(q, "Unauthorized")
  ELSE IF c.token = "bad" THEN Finish(q, "InvalidToken")
  ELSE [q EXCEPT !.pc = "gate"]

\* Mutant: any attached role passes.
checkRoleAnyRole(route, user) == user.role # "none"

\* checkRole(allowedRoles): the request passes only with an attached role
\* that is in the route's allow-set.
checkRole(route, user) ==
  /\ user.role # "none"
  /\ user.role \in AllowedRoles(route)

\* ------------------------------------------------------ PlaceOrder: entry
validPaymentTypes == {"half", "full", "cashOnDelivery"}
paymentTypeToId(t) ==
  CASE t = "half" -> 1 [] t = "full" -> 2 [] t = "cashOnDelivery" -> 3

\* `if (!productId || quantity == null || quantity < 1)`
LineInvalid(line) ==
  \/ line.productId = NoId
  \/ line.quantity.t # "num"
  \/ line.quantity.v < 1

\* The head of the `for (const line of items)` loop for line loc.idx: the
\* line's validation, which runs before the loop's first await.
LoopHead(q) ==
  IF q.loc.idx > Len(q.body.items.v) THEN [q EXCEPT !.pc = "order_create"]
  ELSE IF LineInvalid(q.body.items.v[q.loc.idx]) THEN Finish(q, "ValidationError")
  ELSE [q EXCEPT !.pc = "order_item"]

\* Mutant: a negative paymentAmount passes the validation.
OrderEntryNegativeAmount(q) ==
  LET b == q.body
      amount == ToNumber(b.paymentAmount) IN
  IF b.shopId = NoId \/ b.items.t # "arr" \/ Len(b.items.v) = 0
    THEN Finish(q, "ValidationError")
  ELSE IF b.paymentType \notin validPaymentTypes THEN Finish(q, "ValidationError")
  ELSE IF amount.t = "nan" THEN Finish(q, "ValidationError")
  ELSE [q EXCEPT !.pc = "order_shop",
                 !.loc = [amount |-> amount.v,
                          paymentTypeId |-> paymentTypeToId(b.paymentType),
                          idx |-> 1, orderLines |-> <<>>, totalAmount |-> 0,
                          product |-> NoId, quantity |-> 0]]

\* POST /order from the start of the handler to `await Shop.findById`.
OrderEntry(q) ==
  LET b == q.body
      amount == ToNumber(b.paymentAmount) IN
  IF b.shopId = NoId \/ b.items.t # "arr" \/ Len(b.items.v) = 0
    THEN Finish(q, "ValidationError")
  ELSE IF b.paymentType \notin validPaymentTypes THEN Finish(q, "ValidationError")
  ELSE IF amount.t = "nan" \/ amount.v < 0 THEN Finish(q, "ValidationError")
  ELSE [q EXCEPT !.pc = "order_shop",
                 !.loc = [amount |-> amount.v,
                          paymentTypeId |-> paymentTypeToId(b.paymentType),
                          idx |-> 1, orderLines |-> <<>>, totalAmount |-> 0,
                          product |-> NoId, quantity |-> 0]]

\* ---------------------------------------------------- RecordPayment: entry
\* PATCH /admin/order/:orderId/payment up to `await Order.findById`.
\* orderId 0 stands for a string that is no ObjectId.
PaymentEntry(q) ==
  LET b == q.body
      amount == IF b.amountPaid.t \in {"null", "undefined"} THEN NaN
                ELSE ToNumber(b.amountPaid) IN
  IF b.orderId = 0 THEN Finish(q, "ValidationError")
  ELSE IF amount.t = "nan" \/ amount.v < 0 THEN Finish(q, "ValidationError")
  ELSE [q EXCEPT !.pc = "pay_read", !.loc = [amount |-> amount.v]]

\* ------------------------------------------------- product update: entry
\* PUT /admin/product/:id up to its first await: the category lookup is
\* made only when the body names a categoryType.
ProductUpdateEntry(q) ==
  IF q.body.categoryType # NoId THEN [q EXCEPT !.pc = "product_category"]
  ELSE [q EXCEPT !.pc = "product_update"]

\* PATCH /salesman/:id/status and PATCH /admin/shop/:id/status up to the
\* update: `typeof isActive !== "boolean"` is a validation error.
StatusEntry(q) ==
  IF q.body.isActive.t # "bool" THEN Finish(q, "ValidationError")
  ELSE [q EXCEPT !.pc = q.route]

\* POST /create-salesman up to `await User.findOne({ idCardNumber })`.
CreateSalesmanEntry(q) ==
  LET b == q.body IN
  IF b.name = "" \/ b.phone = "" \/ b.address = "" \/ b.password.text = ""
       \/ b.idCardNumber = ""
    THEN Finish(q, "ValidationError")
  ELSE [q EXCEPT !.pc = "salesman_find"]

\* POST /change-password up to `await User.findById(req.user.id)`: both
\* passwords must be present and the new one must pass the policy.
ChangePasswordEntry(q) ==
  LET b == q.body IN
  IF b.oldPassword.text = "" \/ b.newPassword.text = "" THEN Finish(q, "ValidationError")
  ELSE IF ~passwordRegex(b.newPassword) THEN Finish(q, "WeakPassword")
  ELSE [q EXCEPT !.pc = "password_find"]

\* The synchronous start of each route's handler, run by the gate's next().
\* DELETE /salesman/:id and GET /admin/orders go straight to the store.
Entry(q) ==
  CASE q.route = "order" -> OrderEntry(q)
    [] q.route = "payment" -> PaymentEntry(q)
    [] q.route = "productUpdate" -> ProductUpdateEntry(q)
    [] q.route \in {"salesmanStatus", "shopStatus"} -> StatusEntry(q)
    [] q.route = "createSalesman" -> CreateSalesmanEntry(q)
    [] q.route = "changePassword" -> ChangePasswordEntry(q)
    [] OTHER -> [q EXCEPT !.pc = q.route]

\* The role in the payload of the access token issued to user t at login.
TokenRole(t) == IF t = "A1" THEN "admin" ELSE "salesman"

\* Mutant: the gate trusts the token's payload and does not load the user.
AdmitDecodedOnly(q) ==
  LET q1 == [q EXCEPT !.user = [id |-> q.token, role |-> TokenRole(q.token)]] IN
  IF ~checkRole(q.route, q1.user) THEN Finish(q1, "AccessDenied")
  ELSE Entry(q1)

\* verifyAccessToken after `await User.findById(decoded.id)`, then checkRole,
\* then the handler's synchronous start.
Admit(q) ==
  LET user == users[q.token] IN
  IF ~user.exists THEN Finish(q, "UserNotFound")
  ELSE IF user.isActive = FALSE THEN Finish(q, "AccountBlocked")
  ELSE LET q1 == [q EXCEPT !.user = [id |-> q.token, role |-> user.role]] IN
       IF ~checkRole(q.route, q1.user) THEN Finish(q1, "AccessDenied")
       ELSE Entry(q1)

\* ------------------------------------------------------------------ actions
RECURSIVE SumQuantity(_, _)
\* Total quantity of product p over a sequence of order lines.
SumQuantity(lines, p) ==
  IF lines = <<>> THEN 0
  ELSE (IF lines[1].product = p THEN lines[1].quantity ELSE 0) + SumQuantity(Tail(lines), p)

Start(r, Calls) ==
  /\ req[r].pc = "idle"
  /\ calls < MaxCalls
  /\ \E c \in Calls : req' = [req EXCEPT ![r] = Begin(c)]
  /\ calls' = calls + 1
  /\ UNCHANGED <<store, stockOut, stockEdited, auth>>

Gate(r) ==
  /\ req[r].pc = "gate"
  /\ req' = [req EXCEPT ![r] = Admit(req[r])]
  /\ UNCHANGED <<store, calls, stockOut, stockEdited, auth>>

\* The response has been sent: the slot is free for the next request.
Respond(r) ==
  /\ req[r].pc = "done"
  /\ req' = [req EXCEPT ![r] = Idle]
  /\ UNCHANGED <<store, calls, stockOut, stockEdited, auth>>

\* --- POST /order
\* `await Shop.findById(shopId)` and the checks on the shop.
OrderShop(r) ==
  LET q == req[r]
      found == q.body.shopId \in ShopIds /\ shops[q.body.shopId].exists IN
  /\ q.pc = "order_shop"
  /\ req' = [req EXCEPT ![r] =
       IF ~found THEN Finish(q, "ShopNotFound")
       ELSE IF shops[q.body.shopId].isActive = FALSE THEN Finish(q, "ShopInactive")
       ELSE LoopHead(q)]
  /\ UNCHANGED <<store, calls, stockOut, stockEdited, auth>>

\* Mutant: the line total forgets the quantity.
OrderLineNoQuantity(productId, quantity, product) ==
  [product |-> productId, productName |-> productId, quantity |-> quantity,
   unitPrice |-> product.price, lineTotal |-> product.price]

\* The line record pushed on orderLines.
OrderLine(productId, quantity, product) ==
  [product |-> productId, productName |-> productId, quantity |-> quantity,
   unitPrice |-> product.price, lineTotal |-> quantity * product.price]

\* Mutant: the sufficiency check is left out.
InsufficientStockUnchecked(product, quantity) == FALSE

\* `if (product.quantity < quantity)`
InsufficientStock(product, quantity) == product.quantity < quantity

\* Mutant: a line that fails restores the stock of the lines before it.
OrderItemReadRollback(r) ==
  LET q == req[r]
      line == q.body.items.v[q.loc.idx]
      p == line.productId
      quantity == line.quantity.v
      found == p \in ProductIds /\ items[p].exists
      fails == ~found \/ InsufficientStock(items[p], quantity) IN
  /\ q.pc = "order_item"
  /\ req' = [req EXCEPT ![r] =
       IF ~found THEN Finish(q, "ProductNotFound")
       ELSE IF fails THEN Finish(q, "InsufficientStock")
       ELSE LET l == OrderLine(p, quantity, items[p]) IN
            [q EXCEPT !.pc = "order_save",
                      !.loc.orderLines = Append(@, l),
                      !.loc.totalAmount = @ + l.lineTotal,
                      !.loc.product = p,
                      !.loc.quantity = items[p].quantity - quantity]]
  /\ items' = IF fails
              THEN [x \in ProductIds |->
                      [items[x] EXCEPT !.quantity = @ + SumQuantity(q.loc.orderLines, x)]]
              ELSE items
  /\ UNCHANGED <<users, shops, orders, calls, stockOut, stockEdited, auth>>

\* Mutant: every line is checked against the stock the product had before
\* the lines of this call were saved.
OrderItemReadCallStock(r) ==
  LET q == req[r]
      line == q.body.items.v[q.loc.idx]
      p == line.productId
      quantity == line.quantity.v
      found == p \in ProductIds /\ items[p].exists
      atCall == [quantity |-> items[p].quantity + SumQuantity(q.loc.orderLines, p)] IN
  /\ q.pc = "order_item"
  /\ req' = [req EXCEPT ![r] =
       IF ~found THEN Finish(q, "ProductNotFound")
       ELSE IF InsufficientStock(atCall, quantity) THEN Finish(q, "InsufficientStock")
       ELSE LET l == OrderLine(p, quantity, items[p]) IN
            [q EXCEPT !.pc = "order_save",
                      !.loc.orderLines = Append(@, l),
                      !.loc.totalAmount = @ + l.lineTotal,
                      !.loc.product = p,
                      !.loc.quantity = items[p].quantity - quantity]]
  /\ UNCHANGED <<store, calls, stockOut, stockEdited, auth>>

\* `await Item.findById(productId)`, the stock check, the line record, the
\* running total and the decrement of the loaded document (not yet saved).
OrderItemRead(r) ==
  LET q == req[r]
      line == q.body.items.v[q.loc.idx]
      p == line.productId
      quantity == line.quantity.v
      found == p \in ProductIds /\ items[p].exists IN
  /\ q.pc = "order_item"
  /\ req' = [req EXCEPT ![r] =
       IF ~found THEN Finish(q, "ProductNotFound")
       ELSE IF InsufficientStock(items[p], quantity) THEN Finish(q, "InsufficientStock")
       ELSE LET l == OrderLine(p, quantity, items[p]) IN
            [q EXCEPT !.pc = "order_save",
                      !.loc.orderLines = Append(@, l),
                      !.loc.totalAmount = @ + l.lineTotal,
                      !.loc.product = p,
                      !.loc.quantity = items[p].quantity - quantity]]
  /\ UNCHANGED <<store, calls, stockOut, stockEdited, auth>>

\* Mutant: the decrement is applied to the stored quantity (an atomic $inc).
SavedQuantityAtomic(stored, loaded, quantity) == stored - quantity

\* The quantity `product.save()` stores: that of the loaded document after
\* `product.quantity -= quantity`, whatever the stored quantity has become
\* since the document was loaded.
SavedQuantity(stored, loaded, quantity) == loaded

\* `await product.save()`, then the loop moves to the next line.  Saving a
\* document that has been deleted meanwhile throws.
OrderItemSave(r) ==
  LET q == req[r]
      p == q.loc.product
      quantity == q.body.items.v[q.loc.idx].quantity.v IN
  /\ q.pc = "order_save"
  /\ IF items[p].exists
       THEN /\ items' = [items EXCEPT
                 ![p].quantity = SavedQuantity(@, q.loc.quantity, quantity)]
            /\ stockOut' = [stockOut EXCEPT ![p] = @ + quantity]
            /\ req' = [req EXCEPT ![r] =
                 LoopHead([q EXCEPT !.loc.idx = @ + 1, !.writes = @ + 1])]
       ELSE /\ req' = [req EXCEPT ![r] = Finish(q, "InternalError")]
            /\ UNCHANGED <<items, stockOut>>
  /\ UNCHANGED <<users, shops, orders, calls, stockEdited, auth>>

\* The document Order.create stores; amountPaid takes the schema default.
NewOrder(q) ==
  [shop |-> q.body.shopId, salesman |-> q.user.id, orderLines |-> q.loc.orderLines,
   totalAmount |-> q.loc.totalAmount, paymentType |-> q.body.paymentType,
   paymentTypeId |-> q.loc.paymentTypeId, paymentAmount |-> q.loc.amount,
   amountPaid |-> 0]

\* `await Order.create(...)`, the populated re-read and the 201 response.
OrderCreate(r) ==
  LET q == req[r] IN
  /\ q.pc = "order_create"
  /\ orders' = Append(orders, NewOrder(q))
  /\ req' = [req EXCEPT ![r] = Finish([q EXCEPT !.writes = @ + 1], "Created")]
  /\ UNCHANGED <<users, shops, items, calls, stockOut, stockEdited, auth>>

\* --- PATCH /admin/order/:orderId/payment
\* `await Order.findById(orderId)` and the check against totalAmount.
PaymentRead(r) ==
  LET q == req[r]
      o == q.body.orderId IN
  /\ q.pc = "pay_read"
  /\ req' = [req EXCEPT ![r] =
       IF o \notin DOMAIN orders THEN Finish(q, "OrderNotFound")
       ELSE IF q.loc.amount > orders[o].totalAmount THEN Finish(q, "ValidationError")
       ELSE [q EXCEPT !.pc = "pay_save"]]
  /\ UNCHANGED <<store, calls, stockOut, stockEdited, auth>>

\* Mutant: the payment is added to the stored amount.
NewAmountPaidAdded(old, amount) == old + amount

\* The value `order.amountPaid = amount` leaves in the document.
NewAmountPaid(old, amount) == amount

\* `await order.save()`, the populated re-read and the response.
PaymentSave(r) ==
  LET q == req[r]
      o == q.body.orderId IN
  /\ q.pc = "pay_save"
  /\ orders' = [orders EXCEPT ![o].amountPaid = NewAmountPaid(@, q.loc.amount)]
  /\ req' = [req EXCEPT ![r] = Finish([q EXCEPT !.writes = @ + 1], "Ok")]
  /\ UNCHANGED <<users, shops, items, calls, stockOut, stockEdited, auth>>

\* --- PUT /admin/product/:id
Categories == {"C1"}             \* categories exist for good: no route removes one

\* `await Category.findById(categoryType)`
ProductCategory(r) ==
  LET q == req[r] IN
  /\ q.pc = "product_category"
  /\ req' = [req EXCEPT ![r] =
       IF q.body.categoryType \notin Categories THEN Finish(q, "InvalidCategory")
       ELSE [q EXCEPT !.pc = "product_update"]]
  /\ UNCHANGED <<store, calls, stockOut, stockEdited, auth>>

\* Mutant: the new price is also written to the lines of the stored orders
\* that name the product.
ProductUpdateCascade(r) ==
  LET q == req[r]
      p == q.body.id
      found == p \in ProductIds /\ items[p].exists
      price == IF q.body.price.t = "num" THEN q.body.price.v ELSE items[p].price IN
  /\ q.pc = "product_update"
  /\ IF found
       THEN /\ items' = [items EXCEPT
                 ![p].price = price,
                 ![p].quantity = IF q.body.quantity.t = "num" THEN q.body.quantity.v ELSE @]
            /\ orders' = [i \in DOMAIN orders |->
                 [orders[i] EXCEPT !.orderLines =
                    [k \in DOMAIN @ |->
                       IF @[k].product = p THEN [@[k] EXCEPT !.unitPrice = price] ELSE @[k]]]]
            /\ stockEdited' = [stockEdited EXCEPT ![p] = @ \/ q.body.quantity.t = "num"]
            /\ req' = [req EXCEPT ![r] = Finish([q EXCEPT !.writes = @ + 1], "Ok")]
       ELSE /\ req' = [req EXCEPT ![r] = Finish(q, "ProductNotFound")]
            /\ UNCHANGED <<items, orders, stockEdited>>
  /\ UNCHANGED <<users, shops, calls, stockOut, auth>>

\* `await Item.findByIdAndUpdate(id, { name, categoryType, price, quantity })`:
\* one atomic update that sets the fields the body defines.  The schema puts
\* no minimum on price or quantity.
ProductUpdate(r) ==
  LET q == req[r]
      p == q.body.id
      found == p \in ProductIds /\ items[p].exists IN
  /\ q.pc = "product_update"
  /\ IF found
       THEN /\ items' = [items EXCEPT
                 ![p].price = IF q.body.price.t = "num" THEN q.body.price.v ELSE @,
                 ![p].quantity = IF q.body.quantity.t = "num" THEN q.body.quantity.v ELSE @]
            /\ stockEdited' = [stockEdited EXCEPT ![p] = @ \/ q.body.quantity.t = "num"]
            /\ req' = [req EXCEPT ![r] = Finish([q EXCEPT !.writes = @ + 1], "Ok")]
       ELSE /\ req' = [req EXCEPT ![r] = Finish(q, "ProductNotFound")]
            /\ UNCHANGED <<items, stockEdited>>
  /\ UNCHANGED <<users, shops, orders, calls, stockOut, auth>>

\* --- DELETE /admin/product/:id
\* `Item.findByIdAndDelete(id)`
ProductDelete(r) ==
  LET q == req[r]
      p == q.body.id
      found == p \in ProductIds /\ items[p].exists IN
  /\ q.pc = "productDelete"
  /\ IF found
       THEN /\ items' = [items EXCEPT ![p].exists = FALSE]
            /\ req' = [req EXCEPT ![r] = Finish([q EXCEPT !.writes = @ + 1], "Ok")]
       ELSE /\ req' = [req EXCEPT ![r] = Finish(q, "ProductNotFound")]
            /\ UNCHANGED items
  /\ UNCHANGED <<users, shops, orders, calls, stockOut, stockEdited, auth>>

\* --- PATCH /salesman/:id/status
\* Mutant: the filter names the id only, not the role.
SalesmanStatusAnyRole(r) ==
  LET q == req[r]
      u == q.body.id
      found == u \in UserIds /\ users[u].exists IN
  /\ q.pc = "salesmanStatus"
  /\ IF found
       THEN /\ users' = [users EXCEPT ![u].isActive = q.body.isActive.v]
            /\ req' = [req EXCEPT ![r] = Finish([q EXCEPT !.writes = @ + 1], "Ok")]
       ELSE /\ req' = [req EXCEPT ![r] = Finish(q, "SalesmanNotFound")]
            /\ UNCHANGED users
  /\ UNCHANGED <<shops, items, orders, calls, stockOut, stockEdited, auth>>

\* `User.findOneAndUpdate({ _id: id, role: "salesman" }, { isActive })`
SalesmanStatus(r) ==
  LET q == req[r]
      u == q.body.id
      found == u \in UserIds /\ users[u].exists /\ users[u].role = "salesman" IN
  /\ q.pc = "salesmanStatus"
  /\ IF found
       THEN /\ users' = [users EXCEPT ![u].isActive = q.body.isActive.v]
            /\ req' = [req EXCEPT ![r] = Finish([q EXCEPT !.writes = @ + 1], "Ok")]
       ELSE /\ req' = [req EXCEPT ![r] = Finish(q, "SalesmanNotFound")]
            /\ UNCHANGED users
  /\ UNCHANGED <<shops, items, orders, calls, stockOut, stockEdited, auth>>

\* --- DELETE /salesman/:id
\* `User.findOneAndDelete({ _id: id, role: "salesman" })`
SalesmanDelete(r) ==
  LET q == req[r]
      u == q.body.id
      found == u \in UserIds /\ users[u].exists /\ users[u].role = "salesman" IN
  /\ q.pc = "salesmanDelete"
  /\ IF found
       THEN /\ users' = [users EXCEPT ![u].exists = FALSE]
            /\ req' = [req EXCEPT ![r] = Finish([q EXCEPT !.writes = @ + 1], "Ok")]
       ELSE /\ req' = [req EXCEPT ![r] = Finish(q, "SalesmanNotFound")]
            /\ UNCHANGED users
  /\ UNCHANGED <<shops, items, orders, calls, stockOut, stockEdited, auth>>

\* --- PATCH /admin/shop/:id/status
\* `Shop.findByIdAndUpdate(id, { isActive })`
ShopStatus(r) ==
  LET q == req[r]
      s == q.body.id
      found == s \in ShopIds /\ shops[s].exists IN
  /\ q.pc = "shopStatus"
  /\ IF found
       THEN /\ shops' = [shops EXCEPT ![s].isActive = q.body.isActive.v]
            /\ req' = [req EXCEPT ![r] = Finish([q EXCEPT !.writes = @ + 1], "Ok")]
       ELSE /\ req' = [req EXCEPT ![r] = Finish(q, "ShopNotFound")]
            /\ UNCHANGED shops
  /\ UNCHANGED <<users, items, orders, calls, stockOut, stockEdited, auth>>

\* --- DELETE /admin/shop/:id
\* `Shop.findByIdAndDelete(id)`
ShopDelete(r) ==
  LET q == req[r]
      s == q.body.id
      found == s \in ShopIds /\ shops[s].exists IN
  /\ q.pc = "shopDelete"
  /\ IF found
       THEN /\ shops' = [shops EXCEPT ![s].exists = FALSE]
            /\ req' = [req EXCEPT ![r] = Finish([q EXCEPT !.writes = @ + 1], "Ok")]
       ELSE /\ req' = [req EXCEPT ![r] = Finish(q, "ShopNotFound")]
            /\ UNCHANGED shops
  /\ UNCHANGED <<users, items, orders, calls, stockOut, stockEdited, auth>>

\* --- GET /admin/shop-orders-summary
\* The documents `Shop.find().lean()` returns, in the collection's order.
ShopOrder == <<"S1", "S2">>
ShopList == SelectSeq(ShopOrder, LAMBDA s : shops[s].exists)
SeqRange(q) == {q[i] : i \in DOMAIN q}

\* Mutant: the payment amount is summed whatever the payment type.
CondAmountAnyType(o, t) == o.paymentAmount

\* `{ $cond: [{ $eq: ["$paymentType", t] }, "$paymentAmount", 0] }`
CondAmount(o, t) == IF o.paymentType = t THEN o.paymentAmount ELSE 0

\* The group an order opens and the group with the order added to it.
NoGroup ==
  [orderCount |-> 0, totalOrderAmount |-> 0, half |-> 0, full |-> 0, cashOnDelivery |-> 0]
GroupAdd(g, o) ==
  [orderCount |-> g.orderCount + 1,
   totalOrderAmount |-> g.totalOrderAmount + o.totalAmount,
   half |-> g.half + CondAmount(o, "half"),
   full |-> g.full + CondAmount(o, "full"),
   cashOnDelivery |-> g.cashOnDelivery + CondAmount(o, "cashOnDelivery")]

RECURSIVE Aggregate(_, _, _)
\* Order.aggregate([{ $match: { shop: { $in: shopIds } } }, { $group: ... }]):
\* one group per shop that has a matching order, keyed by the shop.
Aggregate(os, shopIds, groups) ==
  IF os = <<>> THEN groups
  ELSE LET o == os[1] IN
       IF o.shop \notin shopIds THEN Aggregate(Tail(os), shopIds, groups)
       ELSE LET g == IF o.shop \in DOMAIN groups THEN groups[o.shop] ELSE NoGroup IN
            Aggregate(Tail(os), shopIds,
                      [s \in DOMAIN groups \cup {o.shop} |->
                         IF s = o.shop THEN GroupAdd(g, o) ELSE groups[s]])

\* The entry of the result for one shop: its group, or the zero default
\* when summaryByShop has no group for it.
SummaryEntry(shop, groups) ==
  IF shop \in DOMAIN groups
  THEN [shop |-> shop, orderCount |-> groups[shop].orderCount,
        totalOrderAmount |-> groups[shop].totalOrderAmount,
        paymentSummary |-> [half |-> groups[shop].half, full |-> groups[shop].full,
                            cashOnDelivery |-> groups[shop].cashOnDelivery]]
  ELSE [shop |-> shop, orderCount |-> 0, totalOrderAmount |-> 0,
        paymentSummary |-> [half |-> 0, full |-> 0, cashOnDelivery |-> 0]]

\* `await Shop.find().lean()`; Order.aggregate is then awaited.
SummaryShops(r) ==
  /\ req[r].pc = "summary"
  /\ req' = [req EXCEPT ![r] = [req[r] EXCEPT !.pc = "summary_orders",
                                              !.loc = [shops |-> ShopList, result |-> <<>>]]]
  /\ UNCHANGED <<store, calls, stockOut, stockEdited, auth>>

\* `await Order.aggregate(...)`, then shops.map(...) and the response.
SummaryOrders(r) ==
  LET q == req[r]
      groups == Aggregate(orders, SeqRange(q.loc.shops), <<>>) IN
  /\ q.pc = "summary_orders"
  /\ req' = [req EXCEPT ![r] =
       [Finish(q, "Ok") EXCEPT
          !.loc.result = [i \in DOMAIN q.loc.shops |-> SummaryEntry(q.loc.shops[i], groups)]]]
  /\ UNCHANGED <<store, calls, stockOut, stockEdited, auth>>

\* --- GET /admin/orders
\* `Order.find().sort().populate().lean()`: a read, then the response.
OrdersList(r) ==
  LET q == req[r] IN
  /\ q.pc = "orders"
  /\ req' = [req EXCEPT ![r] = Finish(q, "Ok")]
  /\ UNCHANGED <<store, calls, stockOut, stockEdited, auth>>

\* ------------------------------------------------------ the public routes
\* Ids no user document has had: a new document gets one of them.
FreeIds == {u \in UserIds : ~users[u].exists /\ hist.via[u] = "none"}
EmailTaken(email) == \E u \in UserIds : users[u].exists /\ creds[u].email = email
IdCardTaken(card) == \E u \in UserIds : users[u].exists /\ creds[u].idCardNumber = card

\* POST /signup up to `await User.findOne({ email })`.
SignupEntry(q) ==
  LET b == q.body IN
  IF b.name = "" \/ b.phone = "" \/ b.address = "" \/ b.password.text = ""
    THEN Finish(q, "ValidationError")
  ELSE IF ~passwordRegex(b.password) THEN Finish(q, "WeakPassword")
  ELSE [q EXCEPT !.pc = "signup_find"]

\* POST /login up to `await User.findOne({ email })`.
LoginEntry(q) ==
  IF q.body.email = NoEmail \/ q.body.password.text = ""
    THEN Finish(q, "ValidationError")
  ELSE [q EXCEPT !.pc = "login_find"]

\* POST /refresh-token up to `await User.findOne({ refreshToken })`.
RefreshEntry(q) ==
  IF q.body.refreshToken = NoToken THEN Finish(q, "Unauthorized")
  ELSE [q EXCEPT !.pc = "refresh"]

\* POST /forgot-password, /verify-code and /reset-password up to
\* `await User.findOne({ email })`: the fields that must be present.
ForgotEntry(q) ==
  IF q.body.email = NoEmail THEN Finish(q, "ValidationError")
  ELSE [q EXCEPT !.pc = "forgot_find"]
VerifyEntry(q) ==
  IF q.body.email = NoEmail \/ q.body.code = "" THEN Finish(q, "ValidationError")
  ELSE [q EXCEPT !.pc = "verify"]
ResetEntry(q) ==
  IF q.body.email = NoEmail \/ q.body.code = "" \/ q.body.newPassword.text = ""
    THEN Finish(q, "ValidationError")
  ELSE [q EXCEPT !.pc = "reset_find"]

\* The handler of a route that has no gate, from its start to its first await.
PublicEntry(q) ==
  CASE q.route = "signup" -> SignupEntry(q)
    [] q.route = "login" -> LoginEntry(q)
    [] q.route = "refresh" -> RefreshEntry(q)
    [] q.route = "logout" -> [q EXCEPT !.pc = "logout_find"]
    [] q.route = "forgot" -> ForgotEntry(q)
    [] q.route = "verify" -> VerifyEntry(q)
    [] q.route = "reset" -> ResetEntry(q)
    [] OTHER -> [q EXCEPT !.pc = q.route]

\* A request to a public route arrives.
Arrive(r, Calls) ==
  /\ req[r].pc = "idle"
  /\ calls < MaxCalls
  /\ \E c \in Calls :
       req' = [req EXCEPT ![r] = PublicEntry([Idle EXCEPT !.route = c.route, !.body = c.body])]
  /\ calls' = calls + 1
  /\ UNCHANGED <<store, stockOut, stockEdited, auth>>

\* --- POST /signup
\* `await User.findOne({ email })`; bcrypt.hash is then awaited.
SignupFind(r) ==
  /\ req[r].pc = "signup_find"
  /\ req' = [req EXCEPT ![r] =
       IF EmailTaken(req[r].body.email) THEN Finish(req[r], "AlreadyExists")
       ELSE [req[r] EXCEPT !.pc = "signup_create"]]
  /\ UNCHANGED <<store, calls, stockOut, stockEdited, auth>>

\* Mutant: the role is taken from the body, the schema's default filling in.
SignupRoleFromBody(body) == IF body.role = "" THEN "salesman" ELSE body.role

\* The role in `User.create({ ..., role: "admin" })`.
SignupRole(body) == "admin"

\* The document written by User.create.
NewUser(role) == [exists |-> TRUE, role |-> role, isActive |-> TRUE]
NewCreds(b, card) ==
  [NoCreds EXCEPT !.email = b.email, !.idCardNumber = card,
                  !.password = bcryptHash(b.password)]

\* Mutant: the collection has no unique index.
DuplicateKeyNoIndex(email, card, self) == FALSE

\* The unique sparse indexes on email and idCardNumber: a write that would
\* give document `self` (NoId for a new document) an email or an id-card
\* number that another document holds is refused.  A document without the
\* field is not in the index.
DuplicateKey(email, card, self) ==
  \E u \in UserIds \ {self} :
    /\ users[u].exists
    /\ \/ email # NoEmail /\ creds[u].email = email
       \/ card # "" /\ creds[u].idCardNumber = card

\* `await User.create({...})`: the unique index on email refuses a duplicate
\* that appeared since the lookup, and the catch answers 500.
SignupCreate(r) ==
  LET q == req[r] IN
  /\ q.pc = "signup_create"
  /\ IF DuplicateKey(q.body.email, "", NoId)
     THEN /\ req' = [req EXCEPT ![r] = Finish(q, "InternalError")]
          /\ UNCHANGED <<users, creds, hist>>
     ELSE \E u \in FreeIds :
          /\ users' = [users EXCEPT ![u] = NewUser(SignupRole(q.body))]
          /\ creds' = [creds EXCEPT ![u] = NewCreds(q.body, "")]
          /\ hist' = [hist EXCEPT !.via[u] = "signup"]
          /\ req' = [req EXCEPT ![r] = [Finish(q, "Created") EXCEPT !.writes = @ + 1,
                                                                  !.loc = [id |-> u]]]
  /\ UNCHANGED <<shops, items, orders, calls, stockOut, stockEdited, clock>>

\* --- POST /create-salesman
\* `await User.findOne({ idCardNumber })`; bcrypt.hash is then awaited.
SalesmanFind(r) ==
  /\ req[r].pc = "salesman_find"
  /\ req' = [req EXCEPT ![r] =
       IF IdCardTaken(req[r].body.idCardNumber) THEN Finish(req[r], "AlreadyExists")
       ELSE [req[r] EXCEPT !.pc = "salesman_create"]]
  /\ UNCHANGED <<store, calls, stockOut, stockEdited, auth>>

\* `await User.create({ ..., role: "salesman" })`, with the unique indexes on
\* idCardNumber and email.
SalesmanCreate(r) ==
  LET q == req[r] IN
  /\ q.pc = "salesman_create"
  /\ IF DuplicateKey(q.body.email, q.body.idCardNumber, NoId)
     THEN /\ req' = [req EXCEPT ![r] = Finish(q, "InternalError")]
          /\ UNCHANGED <<users, creds, hist>>
     ELSE \E u \in FreeIds :
          /\ users' = [users EXCEPT ![u] = NewUser("salesman")]
          /\ creds' = [creds EXCEPT ![u] = NewCreds(q.body, q.body.idCardNumber)]
          /\ hist' = [hist EXCEPT !.via[u] = "createSalesman"]
          /\ req' = [req EXCEPT ![r] = [Finish(q, "Created") EXCEPT !.writes = @ + 1,
                                                                  !.loc = [id |-> u]]]
  /\ UNCHANGED <<shops, items, orders, calls, stockOut, stockEdited, clock>>

\* --- PUT /salesman/:id
\* `User.findOneAndUpdate({ _id: id, role: "salesman" }, update)`: the update
\* holds the fields the body defines; the unique indexes refuse a duplicate
\* and the catch answers 500.
SalesmanUpdate(r) ==
  LET q == req[r]
      u == q.body.id
      found == u \in UserIds /\ users[u].exists /\ users[u].role = "salesman" IN
  /\ q.pc = "salesmanUpdate"
  /\ IF ~found
     THEN /\ req' = [req EXCEPT ![r] = Finish(q, "SalesmanNotFound")]
          /\ UNCHANGED creds
     ELSE IF DuplicateKey(q.body.email, q.body.idCardNumber, u)
     THEN /\ req' = [req EXCEPT ![r] = Finish(q, "InternalError")]
          /\ UNCHANGED creds
     ELSE /\ creds' = [creds EXCEPT
               ![u].email = IF q.body.email # NoEmail THEN q.body.email ELSE @,
               ![u].idCardNumber = IF q.body.idCardNumber # "" THEN q.body.idCardNumber ELSE @]
          /\ req' = [req EXCEPT ![r] = [Finish(q, "Ok") EXCEPT !.writes = @ + 1]]
  /\ UNCHANGED <<store, calls, stockOut, stockEdited, clock, hist>>

\* --- the server's clock
\* Time passes: a second, the life of a reset code or the life of a refresh
\* token.
Tick ==
  /\ clock.ticks < MaxTicks
  /\ \E d \in {1, ResetCodeTtl, RefreshTtl} :
       clock' = [now |-> clock.now + d, ticks |-> clock.ticks + 1]
  /\ UNCHANGED <<store, req, calls, stockOut, stockEdited, creds, hist>>

\* The user document a query on a unique field returns, NoId when none.
UserByEmail(email) ==
  IF EmailTaken(email)
  THEN CHOOSE u \in UserIds : users[u].exists /\ creds[u].email = email
  ELSE NoId
TokenHeld(token) == \E u \in UserIds : users[u].exists /\ creds[u].refreshToken = token
UserByToken(token) ==
  IF TokenHeld(token)
  THEN CHOOSE u \in UserIds : users[u].exists /\ creds[u].refreshToken = token
  ELSE NoId

\* --- POST /login
\* `await User.findOne({ email })` and the checks on the document; the handler
\* then awaits bcrypt.compare on the hash it loaded.
LoginFind(r) ==
  LET q == req[r]
      u == UserByEmail(q.body.email) IN
  /\ q.pc = "login_find"
  /\ req' = [req EXCEPT ![r] =
       IF u = NoId THEN Finish(q, "InvalidCredentials")
       ELSE IF users[u].isActive = FALSE THEN Finish(q, "AccountBlocked")
       ELSE [q EXCEPT !.pc = "login_compare",
                      !.loc = [id |-> u, password |-> creds[u].password,
                               role |-> users[u].role, refreshToken |-> NoToken]]]
  /\ UNCHANGED <<store, calls, stockOut, stockEdited, auth>>

\* bcrypt.compare has resolved: on a match the two tokens are signed at the
\* present second and user.save() is called.
LoginCompare(r) ==
  LET q == req[r] IN
  /\ q.pc = "login_compare"
  /\ req' = [req EXCEPT ![r] =
       IF ~bcryptCompare(q.body.password, q.loc.password)
         THEN Finish(q, "InvalidCredentials")
       ELSE [q EXCEPT !.pc = "login_save",
                      !.loc.refreshToken = Jwt(q.loc.id, clock.now)]]
  /\ UNCHANGED <<store, calls, stockOut, stockEdited, auth>>

\* Mutant: a stored refresh token is kept, only an empty field is filled.
StoredAtLoginKeepFirst(stored, signed) == IF stored = NoToken THEN signed ELSE stored

\* The value of the field after `user.refreshToken = refreshToken; user.save()`.
StoredAtLogin(stored, signed) == signed

\* `await user.save()` of the login, then the response with both tokens.
\* Saving a document that was deleted meanwhile throws, and the catch answers 500.
LoginSave(r) ==
  LET q == req[r]
      u == q.loc.id IN
  /\ q.pc = "login_save"
  /\ IF ~users[u].exists
     THEN /\ req' = [req EXCEPT ![r] = Finish(q, "InternalError")]
          /\ UNCHANGED <<creds, hist>>
     ELSE /\ creds' = [creds EXCEPT ![u].refreshToken =
                         StoredAtLogin(@, q.loc.refreshToken)]
          /\ hist' = [hist EXCEPT !.logins[u] = Append(@, q.loc.refreshToken)]
          /\ req' = [req EXCEPT ![r] = [Finish(q, "Ok") EXCEPT !.writes = @ + 1]]
  /\ UNCHANGED <<store, calls, stockOut, stockEdited, clock>>

\* --- POST /refresh-token
\* Mutant: the expiry of the token is not looked at.
RefreshAcceptsNoExpiry(token, now) == TokenHeld(token) /\ token.signed

\* The lookup by the stored value, then jwt.verify.
RefreshAccepts(token, now) == TokenHeld(token) /\ jwtVerify(token, now)

\* `await User.findOne({ refreshToken })`, jwt.verify and the new access
\* token, which carries the id and the role of the document found.
Refresh(r) ==
  LET q == req[r]
      u == UserByToken(q.body.refreshToken) IN
  /\ q.pc = "refresh"
  /\ req' = [req EXCEPT ![r] =
       IF ~RefreshAccepts(q.body.refreshToken, clock.now) THEN Finish(q, "InvalidToken")
       ELSE [Finish(q, "Ok") EXCEPT !.loc = [id |-> u, role |-> users[u].role]]]
  /\ UNCHANGED <<store, calls, stockOut, stockEdited, auth>>

\* --- POST /logout
\* `await User.findOne({ refreshToken })`: 204 when no document holds it.
LogoutFind(r) ==
  LET q == req[r]
      u == UserByToken(q.body.refreshToken) IN
  /\ q.pc = "logout_find"
  /\ req' = [req EXCEPT ![r] =
       IF u = NoId THEN Finish(q, "NoContent")
       ELSE [q EXCEPT !.pc = "logout_save", !.loc = [id |-> u]]]
  /\ UNCHANGED <<store, calls, stockOut, stockEdited, auth>>

\* Mutant: the save leaves the token in place.
StoredAtLogoutKept(stored) == stored

\* The value of the field after `user.refreshToken = null; user.save()`.
StoredAtLogout(stored) == NoToken

\* `await user.save()` of the logout.
LogoutSave(r) ==
  LET q == req[r]
      u == q.loc.id IN
  /\ q.pc = "logout_save"
  /\ creds' = [creds EXCEPT ![u].refreshToken = StoredAtLogout(@)]
  /\ req' = [req EXCEPT ![r] = [Finish(q, "Ok") EXCEPT !.writes = @ + 1]]
  /\ UNCHANGED <<store, calls, stockOut, stockEdited, clock, hist>>

\* --- POST /change-password
\* `await User.findById(req.user.id)`; bcrypt.compare is then awaited on the
\* hash that was loaded.
PasswordFind(r) ==
  LET q == req[r]
      u == q.user.id IN
  /\ q.pc = "password_find"
  /\ req' = [req EXCEPT ![r] =
       IF ~users[u].exists THEN Finish(q, "UserNotFound")
       ELSE [q EXCEPT !.pc = "password_compare",
                      !.loc = [id |-> u, password |-> creds[u].password]]]
  /\ UNCHANGED <<store, calls, stockOut, stockEdited, auth>>

\* bcrypt.compare has resolved; on a match bcrypt.hash is awaited.
PasswordCompare(r) ==
  LET q == req[r] IN
  /\ q.pc = "password_compare"
  /\ req' = [req EXCEPT ![r] =
       IF ~bcryptCompare(q.body.oldPassword, q.loc.password)
         THEN Finish(q, "InvalidCredentials")
       ELSE [q EXCEPT !.pc = "password_save"]]
  /\ UNCHANGED <<store, calls, stockOut, stockEdited, auth>>

\* Mutant: the refresh token survives the change of password.
StoredAtChangeKept(stored) == stored

\* The value of the field after `user.refreshToken = null`.
StoredAtChange(stored) == NoToken

\* `user.password = hashedPassword; user.refreshToken = null; await user.save()`.
PasswordSave(r) ==
  LET q == req[r]
      u == q.loc.id IN
  /\ q.pc = "password_save"
  /\ IF ~users[u].exists
     THEN /\ req' = [req EXCEPT ![r] = Finish(q, "InternalError")]
          /\ UNCHANGED creds
     ELSE /\ creds' = [creds EXCEPT ![u].password = bcryptHash(q.body.newPassword),
                                    ![u].refreshToken = StoredAtChange(@)]
          /\ req' = [req EXCEPT ![r] = [Finish(q, "Ok") EXCEPT !.writes = @ + 1]]
  /\ UNCHANGED <<store, calls, stockOut, stockEdited, clock, hist>>

\* --- POST /forgot-password
\* The values Math.floor(100000 + Math.random() * 900000).toString() takes.
Codes == {"111111", "222222"}

\* `await User.findOne({ email })`, then the code, its hash and its expiry,
\* ten minutes from the present time; user.save() is called.
ForgotFind(r) ==
  LET q == req[r]
      u == UserByEmail(q.body.email) IN
  /\ q.pc = "forgot_find"
  /\ \E code \in Codes :
       req' = [req EXCEPT ![r] =
         IF u = NoId THEN Finish(q, "UserNotFound")
         ELSE [q EXCEPT !.pc = "forgot_save",
                        !.loc = [id |-> u, code |-> code, resetCode |-> sha256(code),
                                 resetCodeExpiry |-> clock.now + ResetCodeTtl]]]
  /\ UNCHANGED <<store, calls, stockOut, stockEdited, auth>>

\* Mutant: a reset code that is stored already is kept.
ForgotSaveKeepStored(r) ==
  LET q == req[r]
      u == q.loc.id
      keep == creds[u].resetCode # NoHash IN
  /\ q.pc = "forgot_save"
  /\ IF ~users[u].exists
     THEN /\ req' = [req EXCEPT ![r] = Finish(q, "InternalError")]
          /\ UNCHANGED creds
     ELSE /\ creds' = [creds EXCEPT
               ![u].resetCode = IF keep THEN @ ELSE q.loc.resetCode,
               ![u].resetCodeExpiry = IF keep THEN @ ELSE q.loc.resetCodeExpiry]
          /\ req' = [req EXCEPT ![r] = [q EXCEPT !.pc = "forgot_mail", !.writes = @ + 1]]
  /\ UNCHANGED <<store, calls, stockOut, stockEdited, clock, hist>>

\* `await user.save()` of the hash and the expiry; sendEmail is then awaited.
ForgotSave(r) ==
  LET q == req[r]
      u == q.loc.id IN
  /\ q.pc = "forgot_save"
  /\ IF ~users[u].exists
     THEN /\ req' = [req EXCEPT ![r] = Finish(q, "InternalError")]
          /\ UNCHANGED creds
     ELSE /\ creds' = [creds EXCEPT ![u].resetCode = q.loc.resetCode,
                                    ![u].resetCodeExpiry = q.loc.resetCodeExpiry]
          /\ req' = [req EXCEPT ![r] = [q EXCEPT !.pc = "forgot_mail", !.writes = @ + 1]]
  /\ UNCHANGED <<store, calls, stockOut, stockEdited, clock, hist>>

\* `await sendEmail(...)`: the mail goes out, or sendEmail throws (no SMTP
\* account configured, the transport fails) and the catch answers 500.
ForgotMail(r) ==
  /\ req[r].pc = "forgot_mail"
  /\ \E sent \in BOOLEAN :
       req' = [req EXCEPT ![r] = Finish(req[r], IF sent THEN "Ok" ELSE "InternalError")]
  /\ UNCHANGED <<store, calls, stockOut, stockEdited, auth>>

\* --- POST /verify-code and POST /reset-password
\* Mutant: the expiry is not compared with the present time.
CodeAcceptedNoExpiry(email, code, now) ==
  LET u == UserByEmail(email) IN
  IF u = NoId THEN FALSE
  ELSE creds[u].resetCode = sha256(code) /\ creds[u].resetCodeExpiry # NoExpiry

\* The negation of `!user || user.resetCode !== hashedCode ||
\* !user.resetCodeExpiry || user.resetCodeExpiry < new Date()`.
CodeAccepted(email, code, now) ==
  LET u == UserByEmail(email) IN
  IF u = NoId THEN FALSE
  ELSE /\ creds[u].resetCode = sha256(code)
       /\ creds[u].resetCodeExpiry # NoExpiry
       /\ ~(creds[u].resetCodeExpiry < now)

\* `await User.findOne({ email })` and the answer of verify-code.
Verify(r) ==
  LET q == req[r] IN
  /\ q.pc = "verify"
  /\ req' = [req EXCEPT ![r] =
       IF CodeAccepted(q.body.email, q.body.code, clock.now) THEN Finish(q, "Ok")
       ELSE Finish(q, "InvalidOrExpiredCode")]
  /\ UNCHANGED <<store, calls, stockOut, stockEdited, auth>>

\* `await User.findOne({ email })` of reset-password, the code, then the
\* policy; bcrypt.hash is then awaited.
ResetFind(r) ==
  LET q == req[r] IN
  /\ q.pc = "reset_find"
  /\ req' = [req EXCEPT ![r] =
       IF ~CodeAccepted(q.body.email, q.body.code, clock.now)
         THEN Finish(q, "InvalidOrExpiredCode")
       ELSE IF ~passwordRegex(q.body.newPassword) THEN Finish(q, "WeakPassword")
       ELSE [q EXCEPT !.pc = "reset_save", !.loc = [id |-> UserByEmail(q.body.email)]]]
  /\ UNCHANGED <<store, calls, stockOut, stockEdited, auth>>

\* Mutant: the code stays in the document after the reset.
StoredCodeAtResetKept(stored) == stored

\* The value of the field after `user.resetCode = undefined`.
StoredCodeAtReset(stored) == NoHash

\* `await user.save()` of the new hash, with resetCode and resetCodeExpiry
\* unset.
ResetSave(r) ==
  LET q == req[r]
      u == q.loc.id IN
  /\ q.pc = "reset_save"
  /\ IF ~users[u].exists
     THEN /\ req' = [req EXCEPT ![r] = Finish(q, "InternalError")]
          /\ UNCHANGED creds
     ELSE /\ creds' = [creds EXCEPT ![u].password = bcryptHash(q.body.newPassword),
                                    ![u].resetCode = StoredCodeAtReset(@),
                                    ![u].resetCodeExpiry = NoExpiry]
          /\ req' = [req EXCEPT ![r] = [Finish(q, "Ok") EXCEPT !.writes = @ + 1]]
  /\ UNCHANGED <<store, calls, stockOut, stockEdited, clock, hist>>

\* --- GET /profile
\* `await User.findById(req.user.id)` and res.json(user), null when the user
\* was deleted meanwhile.
Profile(r) ==
  /\ req[r].pc = "profile"
  /\ req' = [req EXCEPT ![r] = [Finish(req[r], "Ok") EXCEPT !.loc = [id |-> req[r].user.id]]]
  /\ UNCHANGED <<store, calls, stockOut, stockEdited, auth>>

\* --- a store operation fails
\* The positions where a request awaits something other than the store.
NotAtStore == {"idle", "done", "login_compare", "password_compare", "forgot_mail"}
\* The routes whose handler has no try/catch.
Uncaught == {"refresh", "logout", "profile"}

\* The promise of the awaited store operation rejects (the connection to the
\* database is lost, the operation times out). In the gate the catch answers
\* 403; in a handler with try/catch the catch answers 500 with a JSON
\* message; in a handler without, the rejection leaves the async function:
\* the router of express 4 sends nothing, the router of express 5 hands the
\* error to the default handler, which answers 500 with an HTML page.
StoreFails(r) ==
  LET q == [req[r] EXCEPT !.loc = [failed |-> TRUE]] IN
  /\ req[r].pc \notin NotAtStore
  /\ \E outcome \in {"NoResponse", "HtmlError"} :
       req' = [req EXCEPT ![r] =
         IF req[r].pc = "gate" THEN Finish(q, "InvalidToken")
         ELSE IF req[r].route \notin Uncaught THEN Finish(q, "InternalError")
         ELSE Finish(q, outcome)]
  /\ UNCHANGED <<store, calls, stockOut, stockEdited, auth>>

\* ------------------------------------------------------------------ inputs
\* Non-empty arrays of at most n elements of S.
Arrays(S, n) == UNION {[1..k -> S] : k \in 1..n}
Arr(a) == [t |-> "arr", v |-> a]

OrderCall(token, shopId, itemsField, paymentType, paymentAmount) ==
  [route |-> "order", token |-> token,
   body |-> [shopId |-> shopId, items |-> itemsField, paymentType |-> paymentType,
             paymentAmount |-> paymentAmount]]
PaymentCall(token, orderId, amountPaid) ==
  [route |-> "payment", token |-> token,
   body |-> [orderId |-> orderId, amountPaid |-> amountPaid]]
ProductUpdateCall(token, id, categoryType, price, quantity) ==
  [route |-> "productUpdate", token |-> token,
   body |-> [id |-> id, categoryType |-> categoryType, price |-> price,
             quantity |-> quantity]]

StatusCall(route, token, id, isActive) ==
  [route |-> route, token |-> token, body |-> [id |-> id, isActive |-> isActive]]
DeleteCall(token, id) ==
  [route |-> "salesmanDelete", token |-> token, body |-> [id |-> id]]
ListCall(token) == [route |-> "orders", token |-> token, body |-> NoBody]

\* Well-formed lines on the first product.
StockLines == {[productId |-> "P1", quantity |-> Num(n)] : n \in 1..MaxQty}

\* The requests of Spec: orders by the salesman and product updates by the
\* admin, all carrying valid tokens.
SpecCalls ==
  {OrderCall("U1", "S1", Arr(a), "half", Num(1)) : a \in Arrays(StockLines, MaxLines)}
  \cup {ProductUpdateCall("A1", "P1", NoId, Num(-1), Undefined),
        ProductUpdateCall("A1", "P1", NoId, Undefined, Num(MaxQty))}

\* Lines of every kind: in stock, beyond the stock, of an unknown product,
\* without a product, with a quantity below 1 or without a quantity.
AnyLines ==
  {[productId |-> p, quantity |-> Num(n)] : p \in ProductIds, n \in 1..MaxQty}
  \cup {[productId |-> GhostProduct, quantity |-> Num(1)],
        [productId |-> NoId, quantity |-> Num(1)],
        [productId |-> "P1", quantity |-> Num(0)],
        [productId |-> "P1", quantity |-> Null]}

ShopIdInputs == {NoId, "S1", "S2", GhostShop}
ItemsInputs == {Undefined, Str("P1"), Arr(<<>>), Arr(<<[productId |-> "P1", quantity |-> Num(1)]>>)}
PaymentTypeInputs == {"", "cash", "half", "full", "cashOnDelivery"}
PaymentAmountInputs == {Undefined, Null, Str(""), Str("abc"), Num(-1), Num(0), Num(1)}

\* The requests of SpecSeq: PlaceOrder bodies that vary the validated
\* fields, and bodies that vary the lines.
SeqCalls ==
  {OrderCall("U1", s, it, pt, pa) :
     s \in ShopIdInputs, it \in ItemsInputs, pt \in PaymentTypeInputs,
     pa \in PaymentAmountInputs}
  \cup {OrderCall("U1", "S1", Arr(a), "full", Num(0)) : a \in Arrays(AnyLines, MaxLines)}

\* The requests of SpecPay: payments on the stored order, an unknown order
\* and a malformed order id.
AmountPaidInputs ==
  {Undefined, Null, Str(""), Str("abc")} \cup {Num(n) : n \in -1..3}
PayCalls ==
  {PaymentCall("A1", o, a) : o \in 0..2, a \in AmountPaidInputs}

\* The requests of SpecGate: every route, with every kind of token.
Tokens == {"none", "bad"} \cup UserIds
GateCalls ==
  UNION {
    {OrderCall(t, "S1", Arr(<<[productId |-> "P1", quantity |-> Num(1)]>>), "full", Num(0)),
     PaymentCall(t, 1, Num(1)),
     ProductUpdateCall(t, "P1", "C1", Num(1), Undefined),
     ProductUpdateCall(t, "P1", "C9", Num(1), Undefined),
     StatusCall("salesmanStatus", t, "U1", Bool(FALSE)),
     StatusCall("salesmanStatus", t, "U1", Bool(TRUE)),
     StatusCall("salesmanStatus", t, "A1", Bool(FALSE)),
     StatusCall("salesmanStatus", t, "U1", Str("false")),
     StatusCall("shopStatus", t, "S1", Bool(FALSE)),
     DeleteCall(t, "U1"),
     DeleteCall(t, "A1"),
     ListCall(t)} : t \in Tokens}

\* ----------------------------------------------------------- specifications
\* Spec: concurrent orders and product updates.
Next ==
  \E r \in Req :
    \/ Start(r, SpecCalls)
    \/ Gate(r)
    \/ OrderShop(r)
    \/ OrderItemRead(r)
    \/ OrderItemSave(r)
    \/ OrderCreate(r)
    \/ ProductUpdate(r)
    \/ Respond(r)

Spec == Init /\ [][Next]_vars

\* SpecSeq: one PlaceOrder at a time, with bodies of every kind.
NextSeq ==
  \E r \in {1} :
    \/ Start(r, SeqCalls)
    \/ Gate(r)
    \/ OrderShop(r)
    \/ OrderItemRead(r)
    \/ OrderItemSave(r)
    \/ OrderCreate(r)
    \/ Respond(r)

SpecSeq == Init /\ [][NextSeq]_vars

\* A database in which the salesman has placed one order of one unit of P1.
SeededOrder ==
  [shop |-> "S1", salesman |-> "U1",
   orderLines |-> <<OrderLine("P1", 1, [price |-> InitPrice["P1"]])>>,
   totalAmount |-> InitPrice["P1"], paymentType |-> "half", paymentTypeId |-> 1,
   paymentAmount |-> 1, amountPaid |-> 0]

InitSeeded ==
  /\ users = [u \in UserIds |->
                [exists |-> TRUE, role |-> IF u = "A1" THEN "admin" ELSE "salesman",
                 isActive |-> TRUE]]
  /\ shops = [s \in ShopIds |-> [exists |-> TRUE, isActive |-> (s = "S1")]]
  /\ items = [p \in ProductIds |->
                [exists |-> TRUE, price |-> InitPrice[p],
                 quantity |-> IF p = "P1" THEN InitQty[p] - 1 ELSE InitQty[p]]]
  /\ orders = <<SeededOrder>>
  /\ req = [r \in Req |-> Idle]
  /\ calls = 0
  /\ stockOut = [p \in ProductIds |-> IF p = "P1" THEN 1 ELSE 0]
  /\ stockEdited = [p \in ProductIds |-> FALSE]
  /\ InitAuth

\* SpecSignup: signups and salesman creations on a database that holds the
\* first admin only.
SignupCall(name, email, password, role) ==
  [route |-> "signup", token |-> "none",
   body |-> [name |-> name, phone |-> "1", address |-> "x", email |-> email,
             password |-> password, role |-> role]]
CreateSalesmanCall(token, name, email, password, idCardNumber) ==
  [route |-> "createSalesman", token |-> token,
   body |-> [name |-> name, phone |-> "1", address |-> "x", email |-> email,
             password |-> password, idCardNumber |-> idCardNumber]]
SignupCalls ==
  {SignupCall(n, e, p, role) :
     n \in {"", "n"}, e \in {"a@x", "n@x"}, p \in {NoPw, WeakPw, NewPw},
     role \in {"", "salesman", "admin"}}
CreateSalesmanCalls ==
  {CreateSalesmanCall(t, "n", e, p, card) :
     t \in {"A1", "U1"}, e \in {"a@x", "s@x"}, p \in {NoPw, WeakPw, NewPw},
     card \in {"", "id1"}}
InitSignup ==
  /\ users = [u \in UserIds |->
                IF u = "A1" THEN NewUser("admin")
                ELSE [exists |-> FALSE, role |-> "none", isActive |-> TRUE]]
  /\ shops = [s \in ShopIds |-> [exists |-> TRUE, isActive |-> (s = "S1")]]
  /\ items = [p \in ProductIds |->
                [exists |-> TRUE, price |-> InitPrice[p], quantity |-> InitQty[p]]]
  /\ orders = <<>>
  /\ req = [r \in Req |-> Idle]
  /\ calls = 0
  /\ stockOut = [p \in ProductIds |-> 0]
  /\ stockEdited = [p \in ProductIds |-> FALSE]
  /\ creds = [u \in UserIds |-> IF u = "A1" THEN InitCreds[u] ELSE NoCreds]
  /\ clock = [now |-> 0, ticks |-> 0]
  /\ hist = [logins |-> [u \in UserIds |-> IF u = "A1" THEN <<Jwt(u, 0)>> ELSE <<>>],
             via |-> [u \in UserIds |-> IF u = "A1" THEN "signup" ELSE "none"]]
NextSignup ==
  \E r \in Req :
    \/ Arrive(r, SignupCalls)
    \/ Start(r, CreateSalesmanCalls)
    \/ Gate(r)
    \/ SignupFind(r)
    \/ SignupCreate(r)
    \/ SalesmanFind(r)
    \/ SalesmanCreate(r)
    \/ Respond(r)
SpecSignup == InitSignup /\ [][NextSignup]_vars

\* SpecSession: logins, refreshes and logouts of the seeded users while the
\* clock runs and the admin blocks or unblocks the salesman.
LoginCall(email, password) ==
  [route |-> "login", token |-> "none", body |-> [email |-> email, password |-> password]]
RefreshCall(refreshToken) ==
  [route |-> "refresh", token |-> "none", body |-> [refreshToken |-> refreshToken]]
LogoutCall(refreshToken) ==
  [route |-> "logout", token |-> "none", body |-> [refreshToken |-> refreshToken]]
\* The refresh tokens a client can hold: those the logins returned, and a
\* token that was not signed with the server's secret.
KnownTokens ==
  UNION {{hist.logins[u][i] : i \in DOMAIN hist.logins[u]} : u \in UserIds}
    \cup {ForgedToken}
LoginCalls ==
  {LoginCall(e, p) : e \in {NoEmail, "a@x", "u@x", "z@x"}, p \in {NoPw, OldPw, NewPw}}
SessionCalls ==
  LoginCalls
    \cup {RefreshCall(t) : t \in KnownTokens \cup {NoToken}}
    \cup {LogoutCall(t) : t \in KnownTokens}
BlockCalls == {StatusCall("salesmanStatus", "A1", "U1", Bool(b)) : b \in BOOLEAN}
NextSession ==
  \/ Tick
  \/ \E r \in Req :
       \/ Arrive(r, SessionCalls)
       \/ Start(r, BlockCalls)
       \/ Gate(r)
       \/ SalesmanStatus(r)
       \/ LoginFind(r)
       \/ LoginCompare(r)
       \/ LoginSave(r)
       \/ Refresh(r)
       \/ LogoutFind(r)
       \/ LogoutSave(r)
       \/ Respond(r)
SpecSession == Init /\ [][NextSession]_vars

\* SpecPassword: the admin changes the password while logins and refreshes
\* of the same account arrive.
ChangePasswordCall(token, oldPassword, newPassword) ==
  [route |-> "changePassword", token |-> token,
   body |-> [oldPassword |-> oldPassword, newPassword |-> newPassword]]
ChangePasswordCalls ==
  {ChangePasswordCall("A1", old, new) :
     old \in {NoPw, OldPw, NewPw}, new \in {NoPw, WeakPw, NewPw}}
PasswordCalls ==
  {LoginCall("a@x", p) : p \in {OldPw, NewPw}}
    \cup {RefreshCall(t) : t \in KnownTokens}
NextPassword ==
  \/ Tick
  \/ \E r \in Req :
       \/ Start(r, ChangePasswordCalls)
       \/ Arrive(r, PasswordCalls)
       \/ Gate(r)
       \/ PasswordFind(r)
       \/ PasswordCompare(r)
       \/ PasswordSave(r)
       \/ LoginFind(r)
       \/ LoginCompare(r)
       \/ LoginSave(r)
       \/ Refresh(r)
       \/ Respond(r)
SpecPassword == Init /\ [][NextPassword]_vars

\* SpecReset: forgot-password, verify-code and reset-password on a database
\* where the salesman asked for a reset code at time 0.
ForgotCall(email) == [route |-> "forgot", token |-> "none", body |-> [email |-> email]]
VerifyCall(email, code) ==
  [route |-> "verify", token |-> "none", body |-> [email |-> email, code |-> code]]
ResetCall(email, code, newPassword) ==
  [route |-> "reset", token |-> "none",
   body |-> [email |-> email, code |-> code, newPassword |-> newPassword]]
ResetCalls ==
  {ForgotCall(e) : e \in {NoEmail, "u@x", "z@x"}}
    \cup {VerifyCall(e, c) : e \in {"a@x", "u@x", "z@x"}, c \in Codes \cup {""}}
    \cup {ResetCall(e, c, p) : e \in {"a@x", "u@x"}, c \in Codes, p \in {NoPw, WeakPw, NewPw}}
InitReset ==
  /\ users = [u \in UserIds |->
                [exists |-> TRUE, role |-> IF u = "A1" THEN "admin" ELSE "salesman",
                 isActive |-> TRUE]]
  /\ shops = [s \in ShopIds |-> [exists |-> TRUE, isActive |-> (s = "S1")]]
  /\ items = [p \in ProductIds |->
                [exists |-> TRUE, price |-> InitPrice[p], quantity |-> InitQty[p]]]
  /\ orders = <<>>
  /\ req = [r \in Req |-> Idle]
  /\ calls = 0
  /\ stockOut = [p \in ProductIds |-> 0]
  /\ stockEdited = [p \in ProductIds |-> FALSE]
  /\ creds = [InitCreds EXCEPT !["U1"].resetCode = sha256("111111"),
                               !["U1"].resetCodeExpiry = ResetCodeTtl]
  /\ clock = [now |-> 0, ticks |-> 0]
  /\ hist = InitHist
NextReset ==
  \/ Tick
  \/ \E r \in Req :
       \/ Arrive(r, ResetCalls)
       \/ ForgotFind(r)
       \/ ForgotSave(r)
       \/ ForgotMail(r)
       \/ Verify(r)
       \/ ResetFind(r)
       \/ ResetSave(r)
       \/ Respond(r)
SpecReset == InitReset /\ [][NextReset]_vars

\* SpecFail: logins, refreshes, logouts and profile reads over a store whose
\* operations can fail.
ProfileCall(token) == [route |-> "profile", token |-> token, body |-> NoBody]
FailCalls ==
  {LoginCall(e, OldPw) : e \in {"a@x", "u@x"}}
    \cup {RefreshCall(t) : t \in KnownTokens}
    \cup {LogoutCall(t) : t \in KnownTokens}
NextFail ==
  \E r \in Req :
    \/ Arrive(r, FailCalls)
    \/ Start(r, {ProfileCall(t) : t \in UserIds})
    \/ Gate(r)
    \/ Profile(r)
    \/ LoginFind(r)
    \/ LoginCompare(r)
    \/ LoginSave(r)
    \/ Refresh(r)
    \/ LogoutFind(r)
    \/ LogoutSave(r)
    \/ StoreFails(r)
    \/ Respond(r)
SpecFail == Init /\ [][NextFail]_vars

\* SpecSummary: the admin reads the summary of a database that holds up to
\* two orders, while an order is placed or a shop is deleted.
SummaryCall(token) == [route |-> "summary", token |-> token, body |-> NoBody]
ShopDeleteCall(token, id) == [route |-> "shopDelete", token |-> token, body |-> [id |-> id]]
SummaryCalls ==
  {SummaryCall(t) : t \in UserIds}
    \cup {ShopDeleteCall("A1", s) : s \in ShopIds \cup {GhostShop}}
    \cup {OrderCall("U1", "S1", Arr(<<[productId |-> "P1", quantity |-> Num(1)]>>), "full", Num(1))}
\* Orders of one unit of P1 placed with either shop, of every payment type.
StoredOrders ==
  {[SeededOrder EXCEPT !.shop = s, !.paymentType = t, !.paymentTypeId = paymentTypeToId(t),
                       !.paymentAmount = a] :
     s \in ShopIds, t \in validPaymentTypes, a \in {1, 2}}
InitSummary ==
  /\ users = [u \in UserIds |->
                [exists |-> TRUE, role |-> IF u = "A1" THEN "admin" ELSE "salesman",
                 isActive |-> TRUE]]
  /\ shops = [s \in ShopIds |-> [exists |-> TRUE, isActive |-> (s = "S1")]]
  /\ orders \in UNION {[1..n -> StoredOrders] : n \in 0..2}
  /\ items = [p \in ProductIds |->
                [exists |-> TRUE, price |-> InitPrice[p],
                 quantity |-> IF p = "P1" THEN 2 * InitQty[p] - Len(orders) ELSE InitQty[p]]]
  /\ req = [r \in Req |-> Idle]
  /\ calls = 0
  /\ stockOut = [p \in ProductIds |-> IF p = "P1" THEN Len(orders) ELSE 0]
  /\ stockEdited = [p \in ProductIds |-> FALSE]
  /\ InitAuth
NextSummary ==
  \E r \in Req :
    \/ Start(r, SummaryCalls)
    \/ Gate(r)
    \/ SummaryShops(r)
    \/ SummaryOrders(r)
    \/ ShopDelete(r)
    \/ OrderShop(r)
    \/ OrderItemRead(r)
    \/ OrderItemSave(r)
    \/ OrderCreate(r)
    \/ Respond(r)
SpecSummary == InitSummary /\ [][NextSummary]_vars

\* SpecFrame: a stored order while its product is repriced or deleted,
\* payments are recorded and further orders are placed.
ProductDeleteCall(token, id) ==
  [route |-> "productDelete", token |-> token, body |-> [id |-> id]]
FrameCalls ==
  {OrderCall("U1", "S1", Arr(<<[productId |-> p, quantity |-> Num(1)]>>), "full", Num(0)) :
     p \in ProductIds}
    \cup {PaymentCall("A1", o, Num(a)) : o \in 1..2, a \in 1..2}
    \cup {ProductUpdateCall("A1", "P1", NoId, Num(3), Undefined),
          ProductUpdateCall("A1", "P1", NoId, Undefined, Num(0))}
    \cup {ProductDeleteCall("A1", p) : p \in {"P1", GhostProduct}}
NextFrame ==
  \E r \in Req :
    \/ Start(r, FrameCalls)
    \/ Gate(r)
    \/ OrderShop(r)
    \/ OrderItemRead(r)
    \/ OrderItemSave(r)
    \/ OrderCreate(r)
    \/ PaymentRead(r)
    \/ PaymentSave(r)
    \/ ProductUpdate(r)
    \/ ProductDelete(r)
    \/ Respond(r)
SpecFrame == InitSeeded /\ [][NextFrame]_vars

\* SpecUnique: signups, salesman creations and salesman updates that name
\* the same email or id-card number, on a database that is empty, holds the
\* first admin, or holds the admin and a salesman.
SalesmanUpdateCall(token, id, email, idCardNumber) ==
  [route |-> "salesmanUpdate", token |-> token,
   body |-> [id |-> id, email |-> email, idCardNumber |-> idCardNumber]]
UniqueCalls ==
  {CreateSalesmanCall("A1", "n", e, NewPw, card) : e \in {NoEmail, "a@x", "n@x"}, card \in {"id1", "id2"}}
    \cup {SalesmanUpdateCall("A1", u, e, card) :
            u \in UserIds, e \in {NoEmail, "a@x", "n@x"}, card \in {"", "id2"}}
InitUnique ==
  /\ \E present \in {{}, {"A1"}, UserIds} :
       /\ users = [u \in UserIds |->
                     IF u \in present
                     THEN NewUser(IF u = "A1" THEN "admin" ELSE "salesman")
                     ELSE [exists |-> FALSE, role |-> "none", isActive |-> TRUE]]
       /\ creds = [u \in UserIds |-> IF u \in present THEN InitCreds[u] ELSE NoCreds]
       /\ hist = [logins |-> [u \in UserIds |-> IF u \in present THEN <<Jwt(u, 0)>> ELSE <<>>],
                  via |-> [u \in UserIds |->
                             IF u \notin present THEN "none"
                             ELSE IF u = "A1" THEN "signup" ELSE "createSalesman"]]
  /\ shops = [s \in ShopIds |-> [exists |-> TRUE, isActive |-> (s = "S1")]]
  /\ items = [p \in ProductIds |->
                [exists |-> TRUE, price |-> InitPrice[p], quantity |-> InitQty[p]]]
  /\ orders = <<>>
  /\ req = [r \in Req |-> Idle]
  /\ calls = 0
  /\ stockOut = [p \in ProductIds |-> 0]
  /\ stockEdited = [p \in ProductIds |-> FALSE]
  /\ clock = [now |-> 0, ticks |-> 0]
NextUnique ==
  \E r \in Req :
    \/ Arrive(r, {SignupCall("n", e, NewPw, "") : e \in {NoEmail, "a@x", "n@x"}})
    \/ Start(r, UniqueCalls)
    \/ Gate(r)
    \/ SignupFind(r)
    \/ SignupCreate(r)
    \/ SalesmanFind(r)
    \/ SalesmanCreate(r)
    \/ SalesmanUpdate(r)
    \/ Respond(r)
SpecUnique == InitUnique /\ [][NextUnique]_vars

\* SpecAdmin: the admin updates, blocks, unblocks and deletes users by id,
\* the id being the salesman's or the admin's own.
AdminCalls ==
  {StatusCall("salesmanStatus", "A1", u, Bool(b)) : u \in UserIds, b \in BOOLEAN}
    \cup {StatusCall("salesmanStatus", "A1", "U1", Null)}
    \cup {DeleteCall("A1", u) : u \in UserIds}
    \cup {SalesmanUpdateCall("A1", u, e, card) :
            u \in UserIds, e \in {NoEmail, "a@x", "n@x"}, card \in {"", "id2"}}
NextAdmin ==
  \E r \in Req :
    \/ Start(r, AdminCalls)
    \/ Gate(r)
    \/ SalesmanStatus(r)
    \/ SalesmanDelete(r)
    \/ SalesmanUpdate(r)
    \/ Respond(r)
SpecAdmin == Init /\ [][NextAdmin]_vars

\* SpecPay: concurrent payments on stored orders.
NextPay ==
  \E r \in Req :
    \/ Start(r, PayCalls)
    \/ Gate(r)
    \/ PaymentRead(r)
    \/ PaymentSave(r)
    \/ Respond(r)

SpecPay == InitSeeded /\ [][NextPay]_vars

\* SpecGate: concurrent requests on every route by every caller.
NextGate ==
  \E r \in Req :
    \/ Start(r, GateCalls)
    \/ Gate(r)
    \/ OrderShop(r)
    \/ OrderItemRead(r)
    \/ OrderItemSave(r)
    \/ OrderCreate(r)
    \/ PaymentRead(r)
    \/ PaymentSave(r)
    \/ ProductCategory(r)
    \/ ProductUpdate(r)
    \/ SalesmanStatus(r)
    \/ SalesmanDelete(r)
    \/ ShopStatus(r)
    \/ OrdersList(r)
    \/ Respond(r)

SpecGate == InitSeeded /\ [][NextGate]_vars

\* ------------------------------------------------------------------ claims
RECURSIVE SumLineTotals(_)
SumLineTotals(lines) ==
  IF lines = <<>> THEN 0 ELSE lines[1].lineTotal + SumLineTotals(Tail(lines))

RECURSIVE Ordered(_, _)
\* Total quantity of product p over the first n stored orders.
Ordered(n, p) ==
  IF n = 0 THEN 0 ELSE SumQuantity(orders[n].orderLines, p) + Ordered(n - 1, p)

\* Request slot r takes a step of the handler that leaves pc `from`.
Leaves(r, from) == req[r].pc = from /\ req'[r] # req[r]

\* C1: every stored order has, on each line, lineTotal = quantity * unitPrice
\* and totalAmount = the sum of the line totals; and the unitPrice of a line
\* is the product's stored price at the step that processed the line.
C1_LinesAddUp ==
  \A o \in DOMAIN orders :
    /\ \A i \in DOMAIN orders[o].orderLines :
         LET l == orders[o].orderLines[i] IN l.lineTotal = l.quantity * l.unitPrice
    /\ orders[o].totalAmount = SumLineTotals(orders[o].orderLines)
    /\ orders[o].orderLines # <<>>
C1_PriceSnapshot ==
  \A r \in Req :
    Leaves(r, "order_item") /\ req'[r].pc = "order_save" =>
      LET line == req[r].body.items.v[req[r].loc.idx]
          new == req'[r].loc.orderLines[Len(req'[r].loc.orderLines)] IN
      /\ req'[r].loc.orderLines = Append(req[r].loc.orderLines, new)
      /\ new.product = line.productId
      /\ new.quantity = line.quantity.v
      /\ new.unitPrice = items[line.productId].price
      /\ new.lineTotal = line.quantity.v * items[line.productId].price
      /\ req'[r].loc.totalAmount = req[r].loc.totalAmount + new.lineTotal
C1_OrderTotals == [](C1_LinesAddUp) /\ [][C1_PriceSnapshot]_vars
\* An order of two lines of the same product at two different prices.
C1_Witness ==
  \E o \in DOMAIN orders :
    /\ Len(orders[o].orderLines) = 2
    /\ orders[o].orderLines[1].unitPrice # orders[o].orderLines[2].unitPrice
    /\ orders[o].totalAmount = orders[o].orderLines[1].unitPrice + orders[o].orderLines[2].unitPrice

\* C2: with no admin stock edit, a product's initial quantity minus its
\* current quantity is the total quantity of the PlaceOrder decrements
\* persisted for it.
C2_StockDecrementExact ==
  \A p \in ProductIds :
    ~stockEdited[p] => InitQty[p] - items[p].quantity = stockOut[p]

\* C3: no PlaceOrder stock write stores a negative quantity, and the stock
\* of no product is ever negative.
C3_StockNonNegative ==
  /\ \A p \in ProductIds : items[p].quantity >= 0
  /\ \A r \in Req : req[r].pc = "order_save" => req[r].loc.quantity >= 0
\* The stock was sold down to zero and a later line was refused.
C3_Witness ==
  /\ items["P1"].quantity = 0
  /\ stockOut["P1"] > 0
  /\ \E r \in Req : req[r].pc = "done" /\ req[r].result = "InsufficientStock"

\* C4: PlaceOrder checks and decrements the quantity it loaded, not the
\* stored one: every stock write stores the loaded quantity minus the line's
\* quantity, so two calls that loaded the same quantity both pass the check
\* and both orders are created (the witness: stock oversold).
C4_StockWriteIsBlind ==
  [][\A r \in Req :
       Leaves(r, "order_save") /\ req'[r].result # "InternalError" =>
         items'[req[r].loc.product].quantity = req[r].loc.quantity]_vars
\* Two orders were created, each for the whole initial stock of P1, and the
\* admin never restocked it.
C4_Witness ==
  /\ ~stockEdited["P1"]
  /\ Len(orders) = 2
  /\ \A o \in DOMAIN orders : SumQuantity(orders[o].orderLines, "P1") = InitQty["P1"]
  /\ Ordered(Len(orders), "P1") > InitQty["P1"]
  /\ items["P1"].quantity = 0

\* C5: a PlaceOrder that fails at line k creates no order and persists
\* exactly the decrements of lines 1..k-1: the failing step writes nothing
\* for line k and restores nothing, so the stock stays below its initial
\* level by every decrement persisted so far.
LineFailures == {"ValidationError", "ProductNotFound", "InsufficientStock"}
FailedAtLine(q) ==
  /\ q.route = "order"
  /\ q.pc = "done"
  /\ q.result \in LineFailures
  /\ "idx" \in DOMAIN q.loc
C5_NothingRestored ==
  /\ \A p \in ProductIds : InitQty[p] - items[p].quantity = stockOut[p]
  /\ \A r \in Req :
       FailedAtLine(req[r]) =>
         /\ Len(req[r].loc.orderLines) = req[r].loc.idx - 1
         /\ req[r].writes = req[r].loc.idx - 1
C5_FailingStep ==
  \A r \in Req :
    /\ req[r].route = "order"
    /\ req[r].pc \in {"order_shop", "order_item", "order_save"}
    /\ FailedAtLine(req'[r])
    => /\ orders' = orders
       /\ \A p \in ProductIds :
            items'[p] =
              IF req[r].pc = "order_save" /\ p = req[r].loc.product
              THEN [items[p] EXCEPT !.quantity = req[r].loc.quantity]
              ELSE items[p]
C5_NoRollback == [](C5_NothingRestored) /\ [][C5_FailingStep]_vars
\* The second line was refused for lack of stock after the first line's
\* decrement was persisted; no order exists.
C5_Witness ==
  \E r \in Req :
    /\ FailedAtLine(req[r])
    /\ req[r].result = "InsufficientStock"
    /\ req[r].loc.idx = 2
    /\ items[req[r].loc.orderLines[1].product].quantity
         = InitQty[req[r].loc.orderLines[1].product] - req[r].loc.orderLines[1].quantity
    /\ orders = <<>>

\* C6: a PlaceOrder whose body is invalid (no shopId; items missing, not an
\* array or empty; paymentType not one of the three; paymentAmount absent,
\* non-numeric or negative) ends in ValidationError, and one that fails the
\* shop check ends in ShopNotFound or ShopInactive; both without a store write.
InvalidOrderBody(b) ==
  \/ b.shopId = NoId
  \/ b.items.t # "arr"
  \/ (IF b.items.t = "arr" THEN b.items.v = <<>> ELSE FALSE)
  \/ b.paymentType \notin {"half", "full", "cashOnDelivery"}
  \/ b.paymentAmount.t = "undefined"
  \/ (b.paymentAmount.t = "str" /\ b.paymentAmount.v # "")
  \/ (b.paymentAmount.t = "num" /\ b.paymentAmount.v < 0)
ShopFailures == {"ShopNotFound", "ShopInactive"}
C6_RejectedEarly ==
  \A r \in Req :
    req[r].route = "order" /\ req[r].pc \notin {"idle", "gate"} =>
      /\ InvalidOrderBody(req[r].body) =>
           req[r].pc = "done" /\ req[r].result = "ValidationError" /\ req[r].writes = 0
      /\ ~InvalidOrderBody(req[r].body)
           /\ (req[r].body.shopId \notin ShopIds \/ ~shops[req[r].body.shopId].isActive)
           /\ req[r].pc # "order_shop" =>
           req[r].pc = "done" /\ req[r].result \in ShopFailures /\ req[r].writes = 0
C6_RejectingStep ==
  \A r \in Req :
    /\ req[r].route = "order"
    /\ req[r].pc \in {"gate", "order_shop"}
    /\ req'[r].pc = "done"
    /\ req'[r].result \in ShopFailures
         \/ (req'[r].result = "ValidationError" /\ "idx" \notin DOMAIN req'[r].loc)
    => store' = store /\ stockOut' = stockOut
C6_ValidationMutatesNothing == [](C6_RejectedEarly) /\ [][C6_RejectingStep]_vars
\* After one order was created, a request on the disabled shop was refused
\* and left the stock and the orders as they were.
C6_Witness ==
  \E r \in Req :
    /\ req[r].pc = "done"
    /\ req[r].result = "ShopInactive"
    /\ req[r].writes = 0
    /\ Len(orders) = 1
    /\ \A p \in ProductIds :
         InitQty[p] - items[p].quantity = SumQuantity(orders[1].orderLines, p)

\* C7: every stored order has 0 <= amountPaid <= totalAmount.
C7_AmountPaidWithinTotal ==
  \A o \in DOMAIN orders :
    0 <= orders[o].amountPaid /\ orders[o].amountPaid <= orders[o].totalAmount

\* C8: the save of an accepted RecordPayment(orderId, v) leaves amountPaid = v
\* whatever the stored value was, so the same call applied twice stores what
\* it stores when applied once.
C8_PaymentReplaces ==
  [][\A r \in Req :
       Leaves(r, "pay_save") =>
         /\ req'[r].result = "Ok"
         /\ orders'[req[r].body.orderId].amountPaid = ToNumber(req[r].body.amountPaid).v
         /\ orders'[req[r].body.orderId].amountPaid <= orders[req[r].body.orderId].totalAmount]_vars
\* The same payment of 2 on the stored order was accepted twice: 2 is stored.
C8_Witness ==
  \E r1, r2 \in Req :
    /\ r1 # r2
    /\ \A r \in {r1, r2} :
         /\ req[r].route = "payment"
         /\ req[r].pc = "done"
         /\ req[r].result = "Ok"
         /\ req[r].body.orderId = 1
         /\ req[r].body.amountPaid = Num(2)
    /\ orders[1].amountPaid = 2

\* C9: a request with a salesman's token on an admin-only route never runs
\* the route body and never writes the store; when the gate finds the
\* salesman present and active the response is AccessDenied.
AdminOnlyRoutes ==
  {"payment", "orders", "productUpdate", "salesmanStatus", "salesmanDelete", "shopStatus"}
BySalesmanOnAdminRoute(q) ==
  /\ q.route \in AdminOnlyRoutes
  /\ q.token \in UserIds
  /\ users[q.token].role = "salesman"
C9_NeverInBody ==
  \A r \in Req :
    BySalesmanOnAdminRoute(req[r]) =>
      /\ req[r].pc \in {"gate", "done"}
      /\ req[r].writes = 0
      /\ req[r].pc = "done" => req[r].result \in {"AccessDenied", "AccountBlocked", "UserNotFound"}
C9_DeniedAtGate ==
  \A r \in Req :
    BySalesmanOnAdminRoute(req[r]) /\ Leaves(r, "gate") =>
      /\ store' = store
      /\ users[req[r].token].exists /\ users[req[r].token].isActive =>
           req'[r].pc = "done" /\ req'[r].result = "AccessDenied"
C9_SalesmanDenied == [](C9_NeverInBody) /\ [][C9_DeniedAtGate]_vars
\* The salesman asked to record a valid payment on the stored order and was
\* denied; the order is untouched.
C9_Witness ==
  \E r \in Req :
    /\ req[r].route = "payment"
    /\ req[r].token = "U1"
    /\ req[r].pc = "done"
    /\ req[r].result = "AccessDenied"
    /\ req[r].body.orderId \in DOMAIN orders
    /\ orders[req[r].body.orderId].amountPaid = 0

\* C10: when the gate resolves the user of a valid access token, a deleted
\* user gets UserNotFound and a blocked user AccountBlocked, and the request
\* ends there; only a present, active user is attached to the request.
C10_GateStep ==
  \A r \in Req :
    Leaves(r, "gate") =>
      LET u == users[req[r].token] IN
      /\ ~u.exists => req'[r].pc = "done" /\ req'[r].result = "UserNotFound"
      /\ u.exists /\ ~u.isActive =>
           req'[r].pc = "done" /\ req'[r].result = "AccountBlocked"
      /\ req'[r].user # NoUser => u.exists /\ u.isActive
C10_PastGate ==
  \A r \in Req :
    /\ req[r].pc \notin {"idle", "gate", "done"} => req[r].user # NoUser
    /\ req[r].writes > 0 => req[r].user # NoUser
    /\ req[r].pc = "done" /\ req[r].result \in {"UserNotFound", "AccountBlocked"} =>
         req[r].user = NoUser /\ req[r].writes = 0
C10_WitnessDeleted ==
  \E r \in Req :
    /\ req[r].token = "U1"
    /\ req[r].pc = "done"
    /\ req[r].result = "UserNotFound"
    /\ ~users["U1"].exists

\* C11: every user created by Signup has role admin whatever the body says,
\* every salesman was created by create-salesman, and no operation changes
\* the role of a stored user.
C11_RoleByOrigin ==
  \A u \in UserIds :
    users[u].exists =>
      /\ hist.via[u] = "signup" => users[u].role = "admin"
      /\ users[u].role = "salesman" => hist.via[u] = "createSalesman"
C11_RoleKept ==
  \A u \in UserIds :
    users[u].exists /\ users'[u].exists => users'[u].role = users[u].role
C11_SignupIsAdmin == [](C11_RoleByOrigin) /\ [][C11_RoleKept]_vars
\* A signup whose body asked for role salesman created an admin.
C11_Witness ==
  \E r \in Req :
    /\ req[r].route = "signup"
    /\ req[r].result = "Created"
    /\ req[r].body.role = "salesman"
    /\ users[req[r].loc.id].exists
    /\ users[req[r].loc.id].role = "admin"

\* C12: a Login for an email no user has, or with a password that does not
\* match the stored hash, ends in InvalidCredentials; a Login of a blocked
\* user ends in AccountBlocked; a failing Login issues no token and leaves
\* the stored refreshToken as it was.
LoginMismatch(q) ==
  LET u == UserByEmail(q.body.email) IN
  IF u = NoId THEN TRUE ELSE ~bcryptCompare(q.body.password, creds[u].password)
LoginBlocked(q) ==
  LET u == UserByEmail(q.body.email) IN
  IF u = NoId THEN FALSE ELSE users[u].isActive = FALSE
C12_LoginStep ==
  \A r \in Req :
    /\ Leaves(r, "login_find") =>
         /\ LoginMismatch(req[r]) =>
              req'[r].result = "InvalidCredentials" \/ req'[r].pc = "login_compare"
         /\ LoginBlocked(req[r]) => req'[r].result = "AccountBlocked"
    /\ Leaves(r, "login_compare") /\ ~bcryptCompare(req[r].body.password, req[r].loc.password)
         => req'[r].result = "InvalidCredentials"
    /\ req[r].route = "login" /\ req[r].pc # "done" /\ req'[r].pc = "done"
         /\ req'[r].result # "Ok"
         => /\ creds' = creds
            /\ "refreshToken" \in DOMAIN req'[r].loc => req'[r].loc.refreshToken = NoToken
C12_LoginFailures == [][C12_LoginStep]_vars

\* C13 as claimed: once a later Login of the same user has stored its token,
\* Refresh with the token an earlier Login returned fails InvalidToken.
EarlierTokens(u) ==
  {hist.logins[u][i] : i \in 1..(Len(hist.logins[u]) - 1)}
C13_EarlierTokenFails ==
  [][\A r \in Req :
       Leaves(r, "refresh") /\ (\E u \in UserIds : req[r].body.refreshToken \in EarlierTokens(u))
         => req'[r].result = "InvalidToken"]_vars
\* C13 amended: the stored token, which is the one the latest Login stored or
\* none, is the only one Refresh accepts: a token of an earlier Login fails
\* InvalidToken unless it is that same token (logins signed in the same
\* second return the same token), and the stored token succeeds while it
\* has not expired.
LatestTokens(u) ==
  IF hist.logins[u] = <<>> THEN {NoToken}
  ELSE {NoToken, hist.logins[u][Len(hist.logins[u])]}
C13_StoredIsLatest ==
  \A u \in UserIds : users[u].exists => creds[u].refreshToken \in LatestTokens(u)
C13_RefreshStep ==
  \A r \in Req :
    /\ Leaves(r, "refresh") =>
         LET t == req[r].body.refreshToken IN
         /\ (\E u \in UserIds : t \in EarlierTokens(u) /\ t \notin LatestTokens(u))
              => req'[r].result = "InvalidToken"
         /\ (\E u \in UserIds : users[u].exists /\ creds[u].refreshToken = t)
              /\ clock.now < t.iat + RefreshTtl
              => req'[r].result = "Ok" /\ req'[r].loc.id = t.id
    /\ Leaves(r, "login_save") /\ req'[r].result = "Ok" =>
         creds'[req[r].loc.id].refreshToken = req[r].loc.refreshToken
C13_SingleSession == [](C13_StoredIsLatest) /\ [][C13_RefreshStep]_vars
\* The salesman logged in a second time, a second after the first token was
\* signed; Refresh with the first token was refused.
C13_Witness ==
  \E r \in Req :
    /\ req[r].route = "refresh"
    /\ req[r].pc = "done"
    /\ req[r].result = "InvalidToken"
    /\ req[r].body.refreshToken = Jwt("U1", 0)
    /\ hist.logins["U1"] = <<Jwt("U1", 0), Jwt("U1", 1)>>
    /\ creds["U1"].refreshToken = Jwt("U1", 1)

\* C14: Refresh answers Ok exactly when the presented token is the stored
\* refreshToken of a user and is signed and unexpired, and InvalidToken
\* otherwise; a Refresh writes nothing, and the access token of a successful
\* one carries the id and the role of that user.
C14_RefreshStep ==
  \A r \in Req :
    Leaves(r, "refresh") =>
      LET t == req[r].body.refreshToken
          holders == {u \in UserIds : users[u].exists /\ creds[u].refreshToken = t} IN
      /\ req'[r].pc = "done"
      /\ req'[r].result = "Ok" <=>
           holders # {} /\ t.signed /\ clock.now < t.iat + RefreshTtl
      /\ req'[r].result \in {"Ok", "InvalidToken"}
      /\ req'[r].result = "Ok" =>
           /\ req'[r].loc.id \in holders
           /\ req'[r].loc.role = users[req'[r].loc.id].role
      /\ users' = users /\ creds' = creds
C14_RefreshFrame == [][C14_RefreshStep]_vars
\* The stored token of the salesman was presented after its seven days and
\* was refused; it is still stored.
C14_Witness ==
  \E r \in Req :
    /\ req[r].route = "refresh"
    /\ req[r].pc = "done"
    /\ req[r].result = "InvalidToken"
    /\ creds["U1"].refreshToken = req[r].body.refreshToken
    /\ clock.now >= req[r].body.refreshToken.iat + RefreshTtl

\* C15: the save of a Logout that found a user nulls that user's stored
\* refreshToken; a Logout whose token no user holds answers no content and
\* writes nothing; and Refresh with a token no user holds fails InvalidToken.
C15_LogoutStep ==
  \A r \in Req :
    /\ Leaves(r, "logout_save") =>
         /\ req'[r].result = "Ok"
         /\ creds'[req[r].loc.id].refreshToken = NoToken
    /\ Leaves(r, "logout_find") =>
         /\ users' = users /\ creds' = creds
         /\ ~TokenHeld(req[r].body.refreshToken) =>
              req'[r].pc = "done" /\ req'[r].result = "NoContent"
         /\ TokenHeld(req[r].body.refreshToken) =>
              req'[r].pc = "logout_save"
                /\ creds[req'[r].loc.id].refreshToken = req[r].body.refreshToken
    /\ Leaves(r, "refresh") /\ ~TokenHeld(req[r].body.refreshToken) =>
         req'[r].result = "InvalidToken"
C15_LogoutRevokes == [][C15_LogoutStep]_vars
\* One request logged the salesman out; a second Logout with the same token
\* got no content, and the token is stored nowhere.
C15_Witness ==
  \E r1, r2 \in Req :
    /\ req[r1].route = "logout" /\ req[r1].pc = "done" /\ req[r1].result = "Ok"
    /\ req[r2].route = "logout" /\ req[r2].pc = "done" /\ req[r2].result = "NoContent"
    /\ req[r1].body.refreshToken = req[r2].body.refreshToken
    /\ ~TokenHeld(req[r1].body.refreshToken)
    /\ creds[req[r1].body.refreshToken.id].refreshToken = NoToken
\* After the Logout, Refresh with the same token was refused.
C15_WitnessRefresh ==
  \E r1, r2 \in Req :
    /\ req[r1].route = "logout" /\ req[r1].pc = "done" /\ req[r1].result = "Ok"
    /\ req[r2].route = "refresh" /\ req[r2].pc = "done" /\ req[r2].result = "InvalidToken"
    /\ req[r1].body.refreshToken = req[r2].body.refreshToken
    /\ clock.now = 0

\* C16: a Change Password whose oldPassword does not match the stored hash
\* fails InvalidCredentials whatever the newPassword is (both being present),
\* also when the newPassword violates the policy, and writes nothing.
C16_OldPasswordFirst ==
  [][\A r \in Req :
       /\ Leaves(r, "gate")
       /\ req[r].route = "changePassword"
       /\ req'[r].user # NoUser
       /\ req[r].body.oldPassword # NoPw
       /\ req[r].body.newPassword # NoPw
       /\ ~bcryptCompare(req[r].body.oldPassword, creds[req[r].token].password)
       => /\ req'[r].pc = "done" => req'[r].result = "InvalidCredentials"
          /\ creds' = creds]_vars

\* C17: the save of a successful Change Password stores the new hash and
\* nulls the refreshToken; Refresh then refuses every token until the save
\* of a Login stores one; and a Login that looks the user up afterwards
\* compares with the new hash, so it passes only with the new password.
C17_ChangeStep ==
  \A r \in Req :
    /\ Leaves(r, "password_save") /\ req'[r].result = "Ok" =>
         /\ creds'[req[r].loc.id].refreshToken = NoToken
         /\ creds'[req[r].loc.id].password = bcryptHash(req[r].body.newPassword)
    /\ Leaves(r, "refresh") /\ (\A u \in UserIds : creds[u].refreshToken = NoToken
                                   \/ creds[u].refreshToken # req[r].body.refreshToken) =>
         req'[r].result = "InvalidToken"
    /\ Leaves(r, "login_find") /\ req'[r].pc = "login_compare" =>
         req'[r].loc.password = creds[req'[r].loc.id].password
    /\ Leaves(r, "login_compare") /\ req'[r].pc = "login_save" =>
         req[r].loc.password = bcryptHash(req[r].body.password)
C17_TokenOnlyByLogin ==
  \A u \in UserIds :
    creds[u].refreshToken = NoToken /\ creds'[u].refreshToken # NoToken =>
      \E r \in Req : Leaves(r, "login_save") /\ req[r].loc.id = u
                       /\ creds'[u].refreshToken = req[r].loc.refreshToken
C17_ChangeForcesLogin == [][C17_ChangeStep /\ C17_TokenOnlyByLogin]_vars
\* The admin changed the password; a Login with the old password that came
\* afterwards was refused, and no refresh token is stored.
C17_Witness ==
  \E r1, r2 \in Req :
    /\ req[r1].route = "changePassword" /\ req[r1].pc = "done" /\ req[r1].result = "Ok"
    /\ req[r2].route = "login" /\ req[r2].pc = "done"
    /\ req[r2].result = "InvalidCredentials"
    /\ req[r2].body.password = OldPw
    /\ creds["A1"].password = bcryptHash(req[r1].body.newPassword)
    /\ creds["A1"].refreshToken = NoToken

\* C18: Verify Code and Reset Password accept a code only when its hash is
\* the user's stored resetCode and the stored expiry has not passed; the
\* stored pair is written only by the save of a Forgot Password, as the hash
\* of the code that request generated with the expiry ten minutes after it
\* ran; every other code, the right code after the expiry and any code for
\* a user with no pending code fail InvalidOrExpiredCode.
Pending(email, code) ==
  \E u \in UserIds :
    /\ users[u].exists
    /\ creds[u].email = email
    /\ creds[u].resetCode = sha256(code)
    /\ creds[u].resetCodeExpiry >= clock.now
C18_CodeStep ==
  \A r \in Req :
    /\ Leaves(r, "verify") =>
         req'[r].result = (IF Pending(req[r].body.email, req[r].body.code)
                           THEN "Ok" ELSE "InvalidOrExpiredCode")
    /\ Leaves(r, "reset_find") =>
         (req'[r].result = "InvalidOrExpiredCode"
            <=> ~Pending(req[r].body.email, req[r].body.code))
    /\ Leaves(r, "forgot_find") /\ req'[r].pc = "forgot_save" =>
         /\ req'[r].loc.resetCode = sha256(req'[r].loc.code)
         /\ req'[r].loc.resetCodeExpiry = clock.now + ResetCodeTtl
C18_CodeSetByForgot ==
  \A u \in UserIds :
    creds'[u].resetCode # creds[u].resetCode /\ creds'[u].resetCode # NoHash =>
      \E r \in Req :
        /\ Leaves(r, "forgot_save")
        /\ req[r].loc.id = u
        /\ creds'[u].resetCode = sha256(req[r].loc.code)
        /\ creds'[u].resetCodeExpiry = req[r].loc.resetCodeExpiry
C18_ResetCodeChecked == [][C18_CodeStep /\ C18_CodeSetByForgot]_vars
\* The code the salesman was sent was presented after its ten minutes and
\* was refused, while it is still the stored one.
C18_Witness ==
  \E r \in Req :
    /\ req[r].route = "verify"
    /\ req[r].pc = "done"
    /\ req[r].result = "InvalidOrExpiredCode"
    /\ req[r].body.email = "u@x"
    /\ creds["U1"].resetCode = sha256(req[r].body.code)
    /\ creds["U1"].resetCodeExpiry < clock.now

\* C19: the save of a successful Reset Password clears resetCode and
\* resetCodeExpiry; while they are clear every Verify Code and Reset Password
\* for that user fails InvalidOrExpiredCode, and only the save of a Forgot
\* Password sets them again; a Reset Password that fails and every Verify
\* Code write nothing.
C19_ResetStep ==
  \A r \in Req :
    /\ Leaves(r, "reset_save") /\ req'[r].result = "Ok" =>
         /\ creds'[req[r].loc.id].resetCode = NoHash
         /\ creds'[req[r].loc.id].resetCodeExpiry = NoExpiry
         /\ creds'[req[r].loc.id].password = bcryptHash(req[r].body.newPassword)
    /\ Leaves(r, "verify") \/ Leaves(r, "reset_find") =>
         /\ creds' = creds /\ users' = users
         /\ (\A u \in UserIds : creds[u].email = req[r].body.email
                                  => creds[u].resetCode = NoHash)
              => req'[r].result = "InvalidOrExpiredCode"
    /\ req[r].route = "reset" /\ req[r].pc # "done" /\ req'[r].pc = "done"
         /\ req'[r].result # "Ok" => creds' = creds
C19_ClearedUntilForgot ==
  \A u \in UserIds :
    creds[u].resetCode = NoHash /\ creds'[u].resetCode # NoHash =>
      \E r \in Req : Leaves(r, "forgot_save") /\ req[r].loc.id = u
C19_SingleUse == [][C19_ResetStep /\ C19_ClearedUntilForgot]_vars
\* The salesman reset the password with the code; Verify Code with the same
\* code, still within its ten minutes, was then refused.
C19_Witness ==
  \E r1, r2 \in Req :
    /\ req[r1].route = "reset" /\ req[r1].pc = "done" /\ req[r1].result = "Ok"
    /\ req[r2].route = "verify" /\ req[r2].pc = "done"
    /\ req[r2].result = "InvalidOrExpiredCode"
    /\ req[r1].body.email = "u@x" /\ req[r2].body.email = "u@x"
    /\ req[r1].body.code = req[r2].body.code
    /\ creds["U1"].resetCode = NoHash
    /\ creds["U1"].password = bcryptHash(req[r1].body.newPassword)
    /\ clock.now = 0

\* C20: a request whose store operation failed is answered once, with the
\* JSON error InternalError.
C20_FailureAnswered ==
  \A r \in Req :
    "failed" \in DOMAIN req[r].loc =>
      req[r].pc = "done" /\ req[r].result = "InternalError"

RECURSIVE SumOf(_, _)
\* The sum of field f over a sequence of records.
SumOf(q, f) == IF q = <<>> THEN 0 ELSE q[1][f] + SumOf(Tail(q), f)
OrdersOf(s) == SelectSeq(orders, LAMBDA o : o.shop = s)
OrdersOfType(s, t) == SelectSeq(orders, LAMBDA o : o.shop = s /\ o.paymentType = t)

\* The figures of shop s over the stored orders.
Figures(s) ==
  [shop |-> s, orderCount |-> Len(OrdersOf(s)),
   totalOrderAmount |-> SumOf(OrdersOf(s), "totalAmount"),
   paymentSummary |-> [t \in validPaymentTypes |-> SumOf(OrdersOfType(s, t), "paymentAmount")]]

\* The step on which the summary reads the shops: it keeps exactly the
\* existing shops, each once.
C21_ShopsStep ==
  \A r \in Req :
    req[r].pc = "summary" /\ req'[r].pc = "summary_orders" =>
      /\ SeqRange(req'[r].loc.shops) = {s \in ShopIds : shops[s].exists}
      /\ Len(req'[r].loc.shops) = Cardinality(SeqRange(req'[r].loc.shops))
      /\ UNCHANGED <<store, auth>>

\* The step on which the summary answers: one entry per shop read, with
\* that shop's figures over the orders stored at that moment.
C21_SummaryStep ==
  \A r \in Req :
    req[r].pc = "summary_orders" /\ req'[r].pc = "done" /\ req'[r].result = "Ok" =>
      /\ Len(req'[r].loc.result) = Len(req[r].loc.shops)
      /\ \A i \in DOMAIN req[r].loc.shops :
           req'[r].loc.result[i] = Figures(req[r].loc.shops[i])
      /\ UNCHANGED <<store, auth>>

\* C21: ShopOrdersSummary returns one entry per existing shop with the
\* shop's order count, the sum of totalAmount and the sums of paymentAmount by
\* payment type, zero for a shop without orders, and changes no stored state.
C21_SummaryExact == [][C21_ShopsStep /\ C21_SummaryStep]_vars

\* A summary has answered for a shop with two orders of different payment
\* types and a shop with none.
C21_Witness ==
  \E r \in Req :
    /\ req[r].route = "summary" /\ req[r].result = "Ok"
    /\ \E i, j \in DOMAIN req[r].loc.result :
         /\ req[r].loc.result[i].orderCount = 2
         /\ req[r].loc.result[i].paymentSummary.half > 0
         /\ req[r].loc.result[i].paymentSummary.full > 0
         /\ req[r].loc.result[j].orderCount = 0

\* An order without its amountPaid.
Created(o) == [o EXCEPT !.amountPaid = 0]

\* C22: a stored order stays stored, and its lines, totalAmount, shop,
\* salesman, paymentType, paymentTypeId and paymentAmount never change: only
\* amountPaid does.
C22_OrderImmutable ==
  [][\A i \in DOMAIN orders :
       i \in DOMAIN orders' /\ Created(orders'[i]) = Created(orders[i])]_vars

\* The seeded order has a payment recorded and its product's price is no
\* longer the unit price of its line.
C22_Witness ==
  /\ Len(orders) >= 1
  /\ orders[1].amountPaid > 0
  /\ items["P1"].price # orders[1].orderLines[1].unitPrice
  /\ orders[1].orderLines[1].unitPrice = InitPrice["P1"]

\* C23: every stored item has price >= 0 and quantity >= 0.
C23_ItemsNonNegative ==
  \A p \in ProductIds :
    items[p].exists => items[p].price >= 0 /\ items[p].quantity >= 0

\* C24: no two users share an email, and no two users share an id-card
\* number, when the field is present.
C24_Unique ==
  \A u, v \in UserIds :
    u # v /\ users[u].exists /\ users[v].exists =>
      /\ creds[u].email # NoEmail => creds[u].email # creds[v].email
      /\ creds[u].idCardNumber # "" => creds[u].idCardNumber # creds[v].idCardNumber

\* Two signups with the same email both passed the existence check: one
\* created the user, the other was refused by the index.
C24_Witness ==
  \E r, r2 \in Req :
    /\ r # r2
    /\ req[r].route = "signup" /\ req[r].result = "Created"
    /\ req[r2].route = "signup" /\ req[r2].result = "InternalError"
    /\ req[r].body.email = req[r2].body.email

\* The stock of product p before the call of request q, when calls run one
\* at a time and nothing but PlaceOrder writes the stock: the seeded stock
\* less what the earlier calls took, `saved` being the lines of q that have
\* been saved.
StockBeforeCall(p, saved) == InitQty[p] - (stockOut[p] - SumQuantity(saved, p))

\* The check of a line: it passes when the line's quantity is within the
\* stock that the earlier lines of the call left, and fails beyond it.
C25_CheckStep ==
  \A r \in Req :
    req[r].pc = "order_item" =>
      LET line == req[r].body.items.v[req[r].loc.idx]
          p == line.productId
          lines == req[r].loc.orderLines
          left == StockBeforeCall(p, lines) - SumQuantity(lines, p) IN
      /\ req'[r].pc = "order_save" => line.quantity.v <= left
      /\ req'[r].result = "InsufficientStock" => line.quantity.v > left

\* The order a call is about to create, and the order it created, holds of
\* each product no more than the stock before the call.
C25_WithinStock ==
  \A r \in Req :
    req[r].pc = "order_create" \/ (req[r].pc = "done" /\ req[r].result = "Created") =>
      \A p \in ProductIds :
        SumQuantity(req[r].loc.orderLines, p)
          <= StockBeforeCall(p, req[r].loc.orderLines)

\* C25: in a PlaceOrder running alone, each line is checked against the
\* stock left by the earlier lines of the call, so a created order never
\* holds more of a product than its stock before the call.
C25_LinesShareStock == [](C25_WithinStock) /\ [][C25_CheckStep]_vars

\* An order of two lines on the same product was created, taking the whole
\* stock.
C25_Witness ==
  \E r \in Req :
    /\ req[r].result = "Created"
    /\ Len(req[r].loc.orderLines) = 2
    /\ req[r].loc.orderLines[1].product = req[r].loc.orderLines[2].product
    /\ items[req[r].loc.orderLines[1].product].quantity = 0

\* C26: a PlaceOrder whose paymentAmount is not a number >= 0 (absent, null,
\* an empty string, non-numeric, negative) fails ValidationError and creates
\* no order.
C26_AmountValidated ==
  \A r \in Req :
    /\ req[r].route = "order"
    /\ req[r].pc \notin {"idle", "gate"}
    /\ ~(req[r].body.paymentAmount.t = "num" /\ req[r].body.paymentAmount.v >= 0)
    => req[r].pc = "done" /\ req[r].result = "ValidationError" /\ req[r].writes = 0

IsAdmin(u) == u \in UserIds /\ users[u].exists /\ users[u].role = "admin"
SalesmanRoutes == {"salesmanUpdate", "salesmanDelete", "salesmanStatus"}

\* No step blocks, deletes or rewrites the email or id-card number of an
\* admin, and no step changes the role of a user.
C27_AdminStep ==
  \A u \in UserIds :
    /\ IsAdmin(u) =>
         /\ users'[u] = users[u]
         /\ creds'[u].email = creds[u].email
         /\ creds'[u].idCardNumber = creds[u].idCardNumber
    /\ users[u].exists /\ users'[u].exists => users'[u].role = users[u].role

\* The update, delete and status operations answer 'Salesman not found' for
\* the id of an admin.
C27_NotFoundStep ==
  \A r \in Req :
    req[r].pc \in SalesmanRoutes /\ IsAdmin(req[r].body.id) /\ req'[r] # req[r] =>
      req'[r].pc = "done" /\ req'[r].result = "SalesmanNotFound"

\* C27: no operation blocks, modifies the profile fields of or deletes an
\* admin; the salesman update, delete and status operations report
\* 'Salesman not found' for an admin's id; no operation changes a role.
C27_AdminUntouched == [][C27_AdminStep /\ C27_NotFoundStep]_vars

\* The admin's id was refused by an update that named a new email, while
\* the salesman has been blocked or deleted.
C27_Witness ==
  \E r \in Req :
    /\ req[r].route = "salesmanUpdate" /\ req[r].body.id = "A1"
    /\ req[r].body.email = "n@x"
    /\ req[r].result = "SalesmanNotFound"
    /\ ~users["U1"].exists \/ users["U1"].isActive = FALSE

\* The codes Verify Code and Reset Password accept for an email.
ValidCodes(email) == {c \in Codes : Pending(email, c)}

\* C28 as stated: once a Forgot Password has overwritten the stored code,
\* every code that was valid before it is rejected.
C28_FirstCodeRejected ==
  [][\A r \in Req :
       Leaves(r, "forgot_save") /\ req'[r].pc = "forgot_mail" =>
         ValidCodes(req[r].body.email) \cap ValidCodes(req[r].body.email)' = {}]_vars

\* The save of a Forgot Password stores the hash of the code that request
\* generated with that request's expiry: no other code is valid after it.
C28_OverwriteStep ==
  \A r \in Req :
    Leaves(r, "forgot_save") /\ req'[r].pc = "forgot_mail" =>
      /\ ValidCodes(req[r].body.email)' \subseteq {req[r].loc.code}
      /\ creds'[req[r].loc.id].resetCode = sha256(req[r].loc.code)
      /\ creds'[req[r].loc.id].resetCodeExpiry = req[r].loc.resetCodeExpiry

\* C28 (amended): at most one reset code is valid per user at any time; a
\* Forgot Password overwrites the stored hash and expiry, after which the
\* only code accepted is the one that request generated: an earlier code is
\* rejected within its own ten minutes unless the same digits were drawn again.
C28_OneValidCode ==
  /\ [](\A e \in {"a@x", "u@x"} : Cardinality(ValidCodes(e)) <= 1)
  /\ [][C28_OverwriteStep]_vars

\* A second Forgot Password stored another code; the first code was then
\* refused by Verify Code within its ten minutes.
C28_Witness ==
  \E r \in Req :
    /\ req[r].route = "verify" /\ req[r].pc = "done"
    /\ req[r].result = "InvalidOrExpiredCode"
    /\ req[r].body.email = "u@x" /\ req[r].body.code = "111111"
    /\ creds["U1"].resetCode = sha256("222222")
    /\ clock.now < ResetCodeTtl

\* The reset code pending for the salesman when SpecReset starts.
SeededCode == [resetCode |-> sha256("111111"), resetCodeExpiry |-> ResetCodeTtl]

\* C29: a Forgot Password that ends in an error (the mail was not sent)
\* leaves the user's stored resetCode and resetCodeExpiry as they were before
\* the request; stated for the first request of a behaviour.
C29_FailedForgotStoresNothing ==
  \A r \in Req :
    /\ calls = 1
    /\ req[r].route = "forgot" /\ req[r].body.email = "u@x"
    /\ req[r].pc = "done" /\ req[r].result = "InternalError"
    => /\ creds["U1"].resetCode = SeededCode.resetCode
       /\ creds["U1"].resetCodeExpiry = SeededCode.resetCodeExpiry

\* C30: of two Reset Password requests for the same user with the same
\* code, no other request having been made, at most one succeeds.
C30_OneResetSucceeds ==
  \A r1, r2 \in Req :
    /\ calls = 2 /\ r1 # r2
    /\ req[r1].route = "reset" /\ req[r2].route = "reset"
    /\ req[r1].body.email = req[r2].body.email
    /\ req[r1].body.code = req[r2].body.code
    => ~(req[r1].result = "Ok" /\ req[r2].result = "Ok")

====
